---- MODULE Spec2Model ----
(***************************************************************************)
(* Marking and analysis engine of ASETmarker.                             *)
(*                                                                         *)
(* Python strings are modelled as sequences of one-character strings, so   *)
(* that strip(), upper(), lower(), the digit filters and the ordering used *)
(* by sorted() are computed character by character.                        *)
(***************************************************************************)
EXTENDS Integers, Sequences, FiniteSets, TLC

VARIABLES
    lk_response,      \* _lookup_response: the clean_response dict, in insertion order
    lk_resolved,      \* _lookup_response: label -> value returned, for the labels looked up
    sc_configured,    \* scoring: the session passes require_configuration
    sc_answers,       \* scoring: the subject's answer list of the stored configuration
    sc_key,           \* scoring: the answer_key dict the route built for the sheet
    sc_response,      \* scoring: the clean_response read from the sheet
    sc_result,        \* scoring: the SubjectResult returned, <<>> before any
    bt_config,        \* batch: the session's MarkingConfiguration, <<>> when none
    bt_rows,          \* batch: summary_rows of the /batch/process request being served
    bt_student,       \* batch: what _process_batch_student just returned, <<>> when none
    bt_manifest,      \* batch: the students of the manifest the loop has reached, each as
                      \* whether a sheet of it is missing and whether marking it raises (history)
    an_concept_map,   \* analysis: AnalysisService.concept_map
    an_request,       \* analysis: the subject and question_results being analysed, <<>> when none
    an_analysis,      \* analysis: the SubjectAnalysis returned, <<>> before any
    la_result,        \* area tally: the LearningAreaResult built from a tally, <<>> when none
    cf_config,        \* /configure: the session's entry of config_store, <<>> when none
    cf_response,      \* /configure: the response to the request being answered, <<>> when none
    sg_config,        \* /single/process: the session's MarkingConfiguration, <<>> when none
    sg_bundle,        \* /single/process: the request being answered and what it computed, <<>> when none
    sg_hash_seed,     \* /single/process: the order the interpreter process lists each set of labels in
    au_sessions,      \* auth: the _sessions dict, token -> expiry
    au_now,           \* auth: datetime.utcnow(), in hours
    au_issued,        \* auth: the tokens create_session has returned, each with its expiry
    au_invalidated,   \* auth: the tokens passed to invalidate_session since create_session returned them
    au_result,        \* auth: the call being answered and its return value, <<>> when none
    rt_sessions,      \* routes: the _sessions dict, token -> expiry
    rt_now,           \* routes: datetime.utcnow(), in hours
    rt_issued,        \* routes: the tokens the logins have received
    rt_configs,       \* routes: config_store, session token -> configuration
    rt_response,      \* routes: the request being answered and its response, <<>> when none
    nm_value,         \* _normalize_marked_value: the raw value of a field
    nm_result,        \* _normalize_marked_value: the string returned for it, <<>> before the call
    st_configs,       \* config store: config_store._configs, one record per configured session
    st_configured,    \* config store: the sessions /configure has answered with success and
                      \* delete has not been called for since (history)
    st_response,      \* config store: the response being sent, <<>> when none
    rp_call,          \* report: the arguments of the call of _build_concept_mastery_list
    rp_concepts,      \* report: the list it returned, <<>> before the call
    cs_configs,       \* store threads: SessionConfigStore._configs
    cs_lock,          \* store threads: the thread holding SessionConfigStore._lock, <<>> when free
    cs_threads,       \* store threads: the call each thread is in and its position
    cs_latest         \* store threads: per token the configuration most recently set and not
                      \* since deleted or removed as expired, <<>> when none (history)

lookupVars == <<lk_response, lk_resolved>>

scoreVars == <<sc_configured, sc_answers, sc_key, sc_response, sc_result>>

batchVars == <<bt_config, bt_rows, bt_student, bt_manifest>>

analysisVars == <<an_concept_map, an_request, an_analysis>>

statusVars == <<la_result>>

configVars == <<cf_config, cf_response>>

studentVars == <<sg_config, sg_bundle, sg_hash_seed>>

authVars == <<au_sessions, au_now, au_issued, au_invalidated, au_result>>

routeVars == <<rt_sessions, rt_now, rt_issued, rt_configs, rt_response>>

normalizeVars == <<nm_value, nm_result>>

storeVars == <<st_configs, st_configured, st_response>>

reportVars == <<rp_call, rp_concepts>>

threadVars == <<cs_configs, cs_lock, cs_threads, cs_latest>>

vars == <<lookupVars, scoreVars, batchVars, analysisVars, statusVars, configVars, studentVars, authVars, routeVars, normalizeVars, storeVars, reportVars, threadVars>>

-----------------------------------------------------------------------------
(* Characters and strings *)

\* Code point of a character, as compared by Python's str ordering.
Ord(c) ==
    CASE c = " " -> 32
      [] c = "," -> 44
      [] c = "0" -> 48
      [] c = "1" -> 49
      [] c = "2" -> 50
      [] c = "3" -> 51
      [] c = "A" -> 65
      [] c = "B" -> 66
      [] c = "C" -> 67
      [] c = "Q" -> 81
      [] c = "R" -> 82
      [] c = "_" -> 95
      [] c = "a" -> 97
      [] c = "b" -> 98
      [] c = "c" -> 99
      [] c = "q" -> 113
      [] c = "r" -> 114
      [] OTHER -> 0

\* str.upper() on one character.
UpperChar(c) ==
    CASE c = "a" -> "A"
      [] c = "b" -> "B"
      [] c = "c" -> "C"
      [] c = "q" -> "Q"
      [] c = "r" -> "R"
      [] OTHER -> c

\* str.lower() on one character.
LowerChar(c) ==
    CASE c = "A" -> "a"
      [] c = "B" -> "b"
      [] c = "C" -> "c"
      [] c = "Q" -> "q"
      [] c = "R" -> "r"
      [] c = "T" -> "t"
      [] c = "X" -> "x"
      [] OTHER -> c

Upper(s) == [i \in 1..Len(s) |-> UpperChar(s[i])]

Lower(s) == [i \in 1..Len(s) |-> LowerChar(s[i])]

IsDigit(c) == c \in {"0", "1", "2", "3", "4", "5", "6", "7", "8", "9"}

IsSpace(c) == c = " "

RECURSIVE LStrip(_)
LStrip(s) ==
    IF s # <<>> /\ IsSpace(Head(s)) THEN LStrip(Tail(s)) ELSE s

RECURSIVE RStrip(_)
RStrip(s) ==
    IF s # <<>> /\ IsSpace(s[Len(s)]) THEN RStrip(SubSeq(s, 1, Len(s) - 1)) ELSE s

\* str.strip()
Strip(s) == RStrip(LStrip(s))

\* Python's s < t on strings: lexicographic by code point.
RECURSIVE StrLess(_, _)
StrLess(s, t) ==
    IF t = <<>> THEN FALSE
    ELSE IF s = <<>> THEN TRUE
    ELSE IF Ord(Head(s)) # Ord(Head(t)) THEN Ord(Head(s)) < Ord(Head(t))
    ELSE StrLess(Tail(s), Tail(t))

\* "sub in s" for a one-character sub.
HasChar(s, c) == \E i \in 1..Len(s) : s[i] = c

\* sep.join(parts)
RECURSIVE Join(_, _)
Join(sep, parts) ==
    IF parts = <<>> THEN <<>>
    ELSE IF Len(parts) = 1 THEN parts[1]
    ELSE parts[1] \o sep \o Join(sep, Tail(parts))

\* sorted(list of str): insertion into an ascending list, stable.
RECURSIVE InsertSorted(_, _)
InsertSorted(x, sorted) ==
    IF sorted = <<>> THEN <<x>>
    ELSE IF StrLess(x, Head(sorted)) THEN <<x>> \o sorted
    ELSE <<Head(sorted)>> \o InsertSorted(x, Tail(sorted))

RECURSIVE Sorted(_)
Sorted(list) ==
    IF list = <<>> THEN <<>>
    ELSE InsertSorted(list[Len(list)], Sorted(SubSeq(list, 1, Len(list) - 1)))

-----------------------------------------------------------------------------
(* Raw detection values: None, a str, or a list of str.  A str is kept as  *)
(* a one-item record so that all values have one shape.                    *)

NoneValue == [kind |-> "none", items |-> <<>>]

StrValue(s) == [kind |-> "str", items |-> <<s>>]

ListValue(l) == [kind |-> "list", items |-> l]

\* The "" that _lookup_response returns when nothing matches.
EmptyStr == <<>>

-----------------------------------------------------------------------------
(* MarkingService._normalize_marked_value *)

StripUpper(s) == Strip(Upper(s))

normalize_marked_value(value) ==
    IF value.kind = "none" THEN EmptyStr
    ELSE IF value.kind = "list" THEN
        IF Len(value.items) = 0 THEN EmptyStr
        ELSE IF Len(value.items) = 1 THEN StripUpper(value.items[1])
        ELSE LET srt == Sorted(value.items)
             IN  Join(<<",">>, [i \in 1..Len(srt) |-> StripUpper(srt[i])])
    ELSE StripUpper(value.items[1])

-----------------------------------------------------------------------------
(* MarkingService._lookup_response.  A dict is a sequence of               *)
(* [key, value] entries with distinct keys, in insertion order.            *)

DictKeys(d) == {d[i].key : i \in 1..Len(d)}

DictGet(d, k) == d[CHOOSE i \in 1..Len(d) : d[i].key = k].value

\* The prefix list without its upper-case spellings.
PrefixesLowerOnly ==
    << <<"q">>, <<"r", "c">>, <<"q", "r">>, <<"a", "r">> >>

\* The prefixes tried after the bare number, in the order of the list literal.
Prefixes ==
    << <<"q">>, <<"Q">>, <<"r", "c">>, <<"R", "C">>,
       <<"q", "r">>, <<"Q", "R">>, <<"a", "r">>, <<"A", "R">> >>

\* re.search(r'(\d+)$', label): the maximal run of digits ending the label
\* (empty when the label does not end in a digit).
RECURSIVE TrailingDigits(_)
TrailingDigits(label) ==
    IF label # <<>> /\ IsDigit(label[Len(label)])
    THEN TrailingDigits(SubSeq(label, 1, Len(label) - 1)) \o <<label[Len(label)]>>
    ELSE <<>>

\* The keys that the case-insensitive loop accepts for label.
CaseMatches(key, label) ==
    Lower(key) = Lower(label) \/ Upper(key) = Upper(label)

\* _lookup_response with the bare number tried before the case-insensitive loop.
lookup_response_number_first(clean_response, label) ==
    LET num == TrailingDigits(label)
    IN  IF label \in DictKeys(clean_response) THEN DictGet(clean_response, label)
        ELSE IF num # <<>> /\ num \in DictKeys(clean_response)
        THEN DictGet(clean_response, num)
        ELSE IF \E i \in 1..Len(clean_response) : CaseMatches(clean_response[i].key, label)
        THEN LET first == CHOOSE i \in 1..Len(clean_response) :
                            /\ CaseMatches(clean_response[i].key, label)
                            /\ \A j \in 1..(i - 1) : ~CaseMatches(clean_response[j].key, label)
             IN  clean_response[first].value
        ELSE IF num # <<>>
                /\ \E p \in 1..Len(Prefixes) : (Prefixes[p] \o num) \in DictKeys(clean_response)
        THEN LET hit == CHOOSE p \in 1..Len(Prefixes) :
                          /\ (Prefixes[p] \o num) \in DictKeys(clean_response)
                          /\ \A q \in 1..(p - 1) :
                                (Prefixes[q] \o num) \notin DictKeys(clean_response)
             IN  DictGet(clean_response, Prefixes[hit] \o num)
        ELSE StrValue(EmptyStr)

lookup_response(clean_response, label) ==
    IF label \in DictKeys(clean_response) THEN DictGet(clean_response, label)
    ELSE IF \E i \in 1..Len(clean_response) : CaseMatches(clean_response[i].key, label)
    THEN LET first == CHOOSE i \in 1..Len(clean_response) :
                        /\ CaseMatches(clean_response[i].key, label)
                        /\ \A j \in 1..(i - 1) : ~CaseMatches(clean_response[j].key, label)
         IN  clean_response[first].value
    ELSE LET num == TrailingDigits(label)
         IN  IF num = <<>> THEN StrValue(EmptyStr)
             ELSE IF num \in DictKeys(clean_response) THEN DictGet(clean_response, num)
             ELSE IF \E p \in 1..Len(Prefixes) : (Prefixes[p] \o num) \in DictKeys(clean_response)
             THEN LET hit == CHOOSE p \in 1..Len(Prefixes) :
                               /\ (Prefixes[p] \o num) \in DictKeys(clean_response)
                               /\ \A q \in 1..(p - 1) :
                                     (Prefixes[q] \o num) \notin DictKeys(clean_response)
                  IN  DictGet(clean_response, Prefixes[hit] \o num)
             ELSE StrValue(EmptyStr)

-----------------------------------------------------------------------------
(* dashboard.parse_answer_key.  An uploaded file is a sequence of lines;   *)
(* a CSV row is the sequence of the cells between the commas of a line.    *)

\* header_keywords of _is_header_row
HeaderKeywords ==
    {
      <<"q", "u", "e", "s", "t", "i", "o", "n">>, <<"q">>,
      <<"n", "u", "m", "b", "e", "r">>, <<"n", "o">>, <<"n", "o", ".">>,
      <<"#">>, <<"i", "t", "e", "m">>, <<"q", "n">>, <<"q", "n", "o">> }

\* answer_headers of _is_header_row
AnswerHeaders ==
    {
      <<"a", "n", "s", "w", "e", "r">>, <<"a", "n", "s">>,
      <<"c", "o", "r", "r", "e", "c", "t">>, <<"k", "e", "y">>,
      <<"r", "e", "s", "p", "o", "n", "s", "e">>,
      <<"c", "o", "r", "r", "e", "c", "t", " ", "a", "n", "s", "w", "e", "r">> }

\* The header words skipped in a newline-separated file.
PlainHeaders ==
    {
      <<"a", "n", "s", "w", "e", "r">>,
      <<"a", "n", "s", "w", "e", "r", "s">>, <<"k", "e", "y">>,
      <<"a", "n", "s", "w", "e", "r", " ", "k", "e", "y">>,
      <<"c", "o", "r", "r", "e", "c", "t">>,
      <<"c", "o", "r", "r", "e", "c", "t", " ", "a", "n", "s", "w", "e", "r", "s">> }

\* csv.reader on one line: cells are separated by commas; a cell that opens
\* with a double quote runs to the closing quote, commas included.  An empty
\* line gives the empty row.
RECURSIVE SplitCells(_, _, _)
SplitCells(line, cell, quoted) ==
    IF line = <<>> THEN <<cell>>
    ELSE IF quoted
    THEN IF Head(line) = "\"" THEN SplitCells(Tail(line), cell, FALSE)
         ELSE SplitCells(Tail(line), Append(cell, Head(line)), TRUE)
    ELSE IF Head(line) = "," THEN <<cell>> \o SplitCells(Tail(line), <<>>, FALSE)
    ELSE IF Head(line) = "\"" /\ cell = <<>> THEN SplitCells(Tail(line), cell, TRUE)
    ELSE SplitCells(Tail(line), Append(cell, Head(line)), FALSE)

CsvRow(line) == IF line = <<>> THEN <<>> ELSE SplitCells(line, <<>>, FALSE)

is_header_row(row) ==
    IF row = <<>> THEN FALSE
    ELSE \/ Lower(Strip(row[1])) \in HeaderKeywords
         \/ Len(row) > 1 /\ Lower(Strip(row[2])) \in AnswerHeaders

\* re.match(r'^(q|rc|ar|qr)?\d+$', first_cell)
QuestionPrefixes == { <<>>, <<"q">>, <<"r", "c">>, <<"a", "r">>, <<"q", "r">> }

AllDigits(s) == s # <<>> /\ \A i \in 1..Len(s) : IsDigit(s[i])

is_question_row(row) ==
    IF row = <<>> THEN FALSE
    ELSE LET first_cell == Lower(Strip(row[1]))
         IN  \E p \in QuestionPrefixes :
                /\ Len(first_cell) > Len(p)
                /\ SubSeq(first_cell, 1, Len(p)) = p
                /\ AllDigits(SubSeq(first_cell, Len(p) + 1, Len(first_cell)))

\* The CSV loop without its "if answer" test.
RECURSIVE CsvAnswersKeepEmpty(_, _)
CsvAnswersKeepEmpty(rows, found_data) ==
    IF rows = <<>> THEN <<>>
    ELSE LET row == Head(rows)
         IN  IF row = <<>> THEN CsvAnswersKeepEmpty(Tail(rows), found_data)
             ELSE IF ~found_data /\ is_header_row(row)
             THEN CsvAnswersKeepEmpty(Tail(rows), found_data)
             ELSE LET found == found_data \/ is_question_row(row) \/ Len(row) >= 2
                  IN  IF found
                      THEN <<Strip(row[Len(row)])>> \o CsvAnswersKeepEmpty(Tail(rows), found)
                      ELSE CsvAnswersKeepEmpty(Tail(rows), found)

\* The CSV loop of parse_answer_key over the remaining rows.
RECURSIVE CsvAnswers(_, _)
CsvAnswers(rows, found_data) ==
    IF rows = <<>> THEN <<>>
    ELSE LET row == Head(rows)
         IN  IF row = <<>> THEN CsvAnswers(Tail(rows), found_data)
             ELSE IF ~found_data /\ is_header_row(row)
             THEN CsvAnswers(Tail(rows), found_data)
             ELSE LET found == found_data \/ is_question_row(row) \/ Len(row) >= 2
                      answer == Strip(row[Len(row)])
                  IN  IF found /\ answer # <<>>
                      THEN <<answer>> \o CsvAnswers(Tail(rows), found)
                      ELSE CsvAnswers(Tail(rows), found)

\* The newline-separated loop appending the line as read, not stripped.
RECURSIVE PlainAnswersUnstripped(_)
PlainAnswersUnstripped(lines) ==
    IF lines = <<>> THEN <<>>
    ELSE LET stripped == Lower(Strip(Head(lines)))
         IN  IF stripped = <<>> \/ stripped \in PlainHeaders
             THEN PlainAnswersUnstripped(Tail(lines))
             ELSE <<Head(lines)>> \o PlainAnswersUnstripped(Tail(lines))

\* The newline-separated loop of parse_answer_key.
RECURSIVE PlainAnswers(_)
PlainAnswers(lines) ==
    IF lines = <<>> THEN <<>>
    ELSE LET stripped == Lower(Strip(Head(lines)))
         IN  IF stripped = <<>> \/ stripped \in PlainHeaders
             THEN PlainAnswers(Tail(lines))
             ELSE <<Strip(Head(lines))>> \o PlainAnswers(Tail(lines))

parse_answer_key(content) ==
    IF \A i \in 1..Len(content) : Strip(content[i]) = <<>> THEN <<>>
    ELSE IF \E i \in 1..Len(content) : HasChar(content[i], ",")
    THEN CsvAnswers([i \in 1..Len(content) |-> CsvRow(content[i])], FALSE)
    ELSE PlainAnswers(content)

-----------------------------------------------------------------------------
(* MarkingService._evaluate_responses and process_single_subject *)

DecimalDigits == <<"0", "1", "2", "3", "4", "5", "6", "7", "8", "9">>

\* str(n) for a natural number
RECURSIVE IntToStr(_)
IntToStr(n) ==
    IF n < 10 THEN <<DecimalDigits[n + 1]>>
    ELSE IntToStr(n \div 10) \o <<DecimalDigits[(n % 10) + 1]>>

\* {f"{prefix}{i+1}": ans for i, ans in enumerate(answers)}
PrefixedKey(prefix, answers) ==
    [i \in 1..Len(answers) |-> [key |-> prefix \o IntToStr(i), value |-> answers[i]]]

Blank == <<"(", "b", "l", "a", "n", "k", ")">>

\* The loop body without the multi-mark test.
QuestionResultCreditMulti(clean_response, label, correct_value) ==
    LET raw_marked         == lookup_response(clean_response, label)
        marked_normalized  == normalize_marked_value(raw_marked)
        correct_normalized == StripUpper(correct_value)
    IN  [ label         |-> label,
          marked_value  |-> IF marked_normalized # <<>> THEN marked_normalized ELSE Blank,
          correct_value |-> correct_value,
          is_correct    |-> marked_normalized = correct_normalized ]

\* The body of the loop of _evaluate_responses for one answer-key entry.
QuestionResult(clean_response, label, correct_value) ==
    LET raw_marked         == lookup_response(clean_response, label)
        marked_normalized  == normalize_marked_value(raw_marked)
        correct_normalized == StripUpper(correct_value)
        is_multi           == HasChar(marked_normalized, ",")
    IN  [ label         |-> label,
          marked_value  |-> IF marked_normalized # <<>> THEN marked_normalized ELSE Blank,
          correct_value |-> correct_value,
          is_correct    |-> (marked_normalized = correct_normalized) /\ ~is_multi ]

\* The loop of _evaluate_responses from entry i on, with its two accumulators.
RECURSIVE EvaluateFrom(_, _, _, _, _)
EvaluateFrom(clean_response, answer_key, i, results, correct) ==
    IF i > Len(answer_key) THEN [results |-> results, correct |-> correct]
    ELSE LET qr == QuestionResult(clean_response, answer_key[i].key, answer_key[i].value)
         IN  EvaluateFrom(clean_response, answer_key, i + 1, Append(results, qr),
                          IF qr.is_correct THEN correct + 1 ELSE correct)

evaluate_responses(clean_response, answer_key) ==
    EvaluateFrom(clean_response, answer_key, 1, <<>>, 0)

\* process_single_subject taking total_questions from the detected fields.
process_single_subject_total_fields(clean_response, answer_key, subject_name) ==
    LET ev == evaluate_responses(clean_response, answer_key)
    IN  [ subject_name    |-> subject_name,
          score           |-> ev.correct,
          total_questions |-> Len(clean_response),
          results         |-> ev.results,
          omr_response    |-> clean_response ]

\* process_single_subject once the sheet has been read into clean_response.
process_single_subject(clean_response, answer_key, subject_name) ==
    LET ev == evaluate_responses(clean_response, answer_key)
    IN  [ subject_name    |-> subject_name,
          score           |-> ev.correct,
          total_questions |-> Len(answer_key),
          results         |-> ev.results,
          omr_response    |-> clean_response ]

-----------------------------------------------------------------------------
(* Inputs of the label-resolution specification *)

\* Largest number of fields in a raw response of the resolution specification.
MaxLookupFields == 2

\* Field labels a template may give to question 3 (and one other question).
LookupFieldLabels ==
    { <<"3">>, <<"q", "3">>, <<"Q", "3">>, <<"r", "c", "3">>, <<"R", "C", "3">>,
      <<"R", "c", "3">>, <<"Q", "R", "3">>, <<"a", "r", "3">>, <<"1", "3">> }

\* Single detected values.
LookupValues == { StrValue(<<"A">>), StrValue(<<"B">>), ListValue(<<<<"C">>>>) }

\* Labels an answer key may use for question 3.
LookupLabels ==
    { <<"R", "C", "3">>, <<"r", "c", "3">>, <<"3">>, <<"q", "3">>, <<"R", "C">> }

LookupEntries == [key : LookupFieldLabels, value : LookupValues]

RECURSIVE DictsUpTo(_, _)
DictsUpTo(entries, n) ==
    IF n = 0 THEN {<<>>}
    ELSE LET shorter == DictsUpTo(entries, n - 1)
         IN  shorter \cup
             { Append(d, e) : d \in {x \in shorter : Len(x) = n - 1},
                              e \in entries }

DistinctKeys(d) == \A i, j \in 1..Len(d) : i # j => d[i].key # d[j].key

LookupResponses ==
    { d \in DictsUpTo(LookupEntries, MaxLookupFields) : DistinctKeys(d) }

NoLookups == [l \in {} |-> NoneValue]

-----------------------------------------------------------------------------
(* Label-resolution specification: one raw response, looked up under       *)
(* several labels.                                                         *)

\* The variables of the store-threads specification, unused.
IdleThreads ==
    /\ cs_configs = {}
    /\ cs_lock = <<>>
    /\ cs_threads = <<>>
    /\ cs_latest = <<>>

\* The variables of the report specification, unused.
IdleReport ==
    /\ rp_call = <<>>
    /\ rp_concepts = <<>>

\* The variables of the configuration-store specification, unused.
IdleStore ==
    /\ st_configs = {}
    /\ st_configured = {}
    /\ st_response = <<>>

\* The variables of the normalization specification, unused.
IdleNormalize ==
    /\ nm_value = NoneValue
    /\ nm_result = <<>>

\* The variables of the route specification, unused.
IdleRoutes ==
    /\ rt_sessions = {}
    /\ rt_now = 0
    /\ rt_issued = {}
    /\ rt_configs = {}
    /\ rt_response = <<>>

\* The variables of the session specification, unused.
IdleAuth ==
    /\ au_sessions = {}
    /\ au_now = 0
    /\ au_issued = {}
    /\ au_invalidated = {}
    /\ au_result = <<>>

\* The variables of the /single/process specification, unused.
IdleStudent ==
    /\ sg_config = <<>>
    /\ sg_bundle = <<>>
    /\ sg_hash_seed = <<>>

\* The variables of the /configure specification, unused.
IdleConfig ==
    /\ cf_config = <<>>
    /\ cf_response = <<>>

\* The variable of the area-tally specification, unused.
IdleStatus == la_result = <<>>

\* The variables of the analysis specification, unused.
IdleAnalysis ==
    /\ an_concept_map = <<>>
    /\ an_request = <<>>
    /\ an_analysis = <<>>

\* The variables of the scoring specification, unused.
IdleScore ==
    /\ sc_configured = FALSE
    /\ sc_answers = <<>>
    /\ sc_key = <<>>
    /\ sc_response = <<>>
    /\ sc_result = <<>>

\* The variables of the batch specification, unused.
IdleBatch ==
    /\ bt_config = <<>>
    /\ bt_rows = <<>>
    /\ bt_student = <<>>
    /\ bt_manifest = <<>>

InitLookup ==
    /\ lk_response \in LookupResponses
    /\ lk_resolved = NoLookups
    /\ IdleScore
    /\ IdleBatch
    /\ IdleAnalysis
    /\ IdleStatus
    /\ IdleConfig
    /\ IdleStudent
    /\ IdleAuth
    /\ IdleRoutes
    /\ IdleNormalize
    /\ IdleStore
    /\ IdleReport
    /\ IdleThreads

\* One call of _lookup_response(clean_response, label).
LookupResponse(label) ==
    /\ label \notin DOMAIN lk_resolved
    /\ lk_resolved' = [l \in (DOMAIN lk_resolved) \cup {label} |->
                          IF l = label THEN lookup_response(lk_response, label)
                          ELSE lk_resolved[l]]
    /\ UNCHANGED lk_response
    /\ UNCHANGED <<scoreVars, batchVars, analysisVars, statusVars, configVars, studentVars, authVars, routeVars, normalizeVars, storeVars, reportVars, threadVars>>

NextLookup == \E label \in LookupLabels : LookupResponse(label)

SpecLookup == InitLookup /\ [][NextLookup]_vars

-----------------------------------------------------------------------------
(* Label resolution: claims C4 and C5 *)

RC3 == <<"R", "C", "3">>

rc3 == <<"r", "c", "3">>

Bare3 == <<"3">>

\* The nine spellings under which question 3 is found from any of its labels.
Aliases3 ==
    { <<"3">>, <<"q", "3">>, <<"Q", "3">>, <<"r", "c", "3">>, <<"R", "C", "3">>,
      <<"q", "r", "3">>, <<"Q", "R", "3">>, <<"a", "r", "3">>, <<"A", "R", "3">> }

IsSingleValue(v) ==
    \/ v.kind = "str"
    \/ v.kind = "list" /\ Len(v.items) = 1

AllThreeResolved == {RC3, rc3, Bare3} \subseteq DOMAIN lk_resolved

\* C4 as stated: whenever the raw response contains field "3" or an alias of
\* it with a single value, looking up "RC3", "rc3" and "3" gives one value.
C4_AliasesResolveAlike ==
    ( /\ AllThreeResolved
      /\ \E k \in Aliases3 \cap DictKeys(lk_response) :
            IsSingleValue(DictGet(lk_response, k)) )
    => /\ lk_resolved[RC3] = lk_resolved[rc3]
       /\ lk_resolved[rc3] = lk_resolved[Bare3]

\* Exactly one of the nine spellings is a field of the response, it holds a
\* single value, and no other field equals "rc3" when case is ignored.
OnlyAlias3(k) ==
    /\ Aliases3 \cap DictKeys(lk_response) = {k}
    /\ IsSingleValue(DictGet(lk_response, k))
    /\ {f \in DictKeys(lk_response) : Lower(f) = rc3} \subseteq {k}

\* C4 (amended): when exactly one of the spellings 3, q3, Q3, rc3, RC3, qr3,
\* QR3, ar3, AR3 is a field of the response, with a single value, and no other
\* field equals rc3 ignoring case, then looking up "RC3", "rc3" and "3" all
\* return the value of that field.
C4_SingleAliasResolvesAlike ==
    \A k \in Aliases3 :
        (AllThreeResolved /\ k \in DictKeys(lk_response) /\ OnlyAlias3(k))
        => /\ lk_resolved[RC3] = DictGet(lk_response, k)
           /\ lk_resolved[rc3] = DictGet(lk_response, k)
           /\ lk_resolved[Bare3] = DictGet(lk_response, k)

\* The response holds question 3 only under "Q3", next to an unrelated field,
\* and all three labels have been looked up.
C4_Witness ==
    /\ AllThreeResolved
    /\ Len(lk_response) = 2
    /\ <<"Q", "3">> \in DictKeys(lk_response)
    /\ OnlyAlias3(<<"Q", "3">>)
    /\ lk_resolved[RC3] = StrValue(<<"A">>)

\* The alias order the resolver is documented to follow.
DocumentedAliases ==
    << <<"q">>, <<"Q">>, <<"r", "c">>, <<"R", "C">>,
       <<"q", "r">>, <<"Q", "R">>, <<"a", "r">>, <<"A", "R">> >>

\* The keys tried in the third step for a label, in order.
DigitCandidates(label) ==
    LET num == TrailingDigits(label)
    IN  IF num = <<>> THEN <<>>
        ELSE <<num>> \o [p \in 1..Len(DocumentedAliases) |-> DocumentedAliases[p] \o num]

ResolvedByPriority(label, r) ==
    LET keys  == DictKeys(lk_response)
        ci    == {k \in keys : Lower(k) = Lower(label)}
        cands == DigitCandidates(label)
    IN  IF label \in keys THEN r = DictGet(lk_response, label)
        ELSE IF ci # {} THEN \E k \in ci : r = DictGet(lk_response, k)
        ELSE IF \E i \in 1..Len(cands) : cands[i] \in keys
        THEN \E i \in 1..Len(cands) :
                /\ cands[i] \in keys
                /\ \A j \in 1..(i - 1) : cands[j] \notin keys
                /\ r = DictGet(lk_response, cands[i])
        ELSE r = StrValue(EmptyStr)

\* C5: every lookup returns the value of the first hit in the order exact key,
\* case-insensitive key, bare trailing digits, then the digits prefixed by
\* q, Q, rc, RC, qr, QR, ar, AR; with no hit it returns the empty string.
C5_ResolvePriority ==
    \A label \in DOMAIN lk_resolved : ResolvedByPriority(label, lk_resolved[label])

\* "q3" was looked up in a response holding both "3" and "Q3" with different
\* values, and the case-insensitive hit won over the bare number.
C5_Witness ==
    /\ <<"q", "3">> \in DOMAIN lk_resolved
    /\ DictKeys(lk_response) = {<<"3">>, <<"Q", "3">>}
    /\ DictGet(lk_response, <<"3">>) # DictGet(lk_response, <<"Q", "3">>)
    /\ lk_resolved[<<"q", "3">>] = DictGet(lk_response, <<"Q", "3">>)

-----------------------------------------------------------------------------
(* Scoring specification: one subject of one session.  /configure stores   *)
(* the subject's parsed answer list; a marking route builds the answer key *)
(* from it and scores the clean_response read from the uploaded sheet.     *)

\* Largest number of lines in an uploaded answer-key file.
MaxAnswerLines == 2

\* Largest number of fields in the clean_response of a sheet.
MaxScoreFields == 2

\* Lines of an uploaded answer-key file.
AnswerLines ==
    { <<"A">>, <<"B">>, <<" ", "a">>, <<>>, <<"k", "e", "y">>,
      <<"1", ",">>, <<"1", ",", "\"", "B", ",", "C", "\"">> }

RECURSIVE SeqsUpTo(_, _)
SeqsUpTo(S, n) ==
    IF n = 0 THEN {<<>>}
    ELSE LET shorter == SeqsUpTo(S, n - 1)
         IN  shorter \cup {Append(q, x) : q \in {y \in shorter : Len(y) = n - 1}, x \in S}

AnswerFiles == SeqsUpTo(AnswerLines, MaxAnswerLines)

\* The upload of the subject's answer key: none, or one file.
AnswerUploads == {<<>>} \cup {<<f>> : f \in AnswerFiles}

\* Field labels of the sheet templates for questions 1 and 2.
ScoreFieldLabels == { <<"1">>, <<"r", "c", "1">>, <<"R", "C", "2">>, <<"q", "2">> }

\* Values detected for a field.
ScoreValues ==
    { StrValue(<<"A">>), StrValue(<<" ", "b">>),
      ListValue(<<<<"B">>, <<"C">>>>), ListValue(<<<<"a">>>>) }

ScoreResponses ==
    { d \in DictsUpTo([key : ScoreFieldLabels, value : ScoreValues], MaxScoreFields) :
        DistinctKeys(d) }

\* Label prefixes of the answer keys built for a Reading sheet:
\* str(i+1) in /single/process, f"RC{i+1}" in /batch/process.
ReadingKeyPrefixes == { <<>>, <<"R", "C">> }

\* The variables of the label-resolution specification, unused.
IdleLookup ==
    /\ lk_response = <<>>
    /\ lk_resolved = NoLookups

InitScore ==
    /\ sc_configured = FALSE
    /\ sc_answers = <<>>
    /\ sc_key = <<>>
    /\ sc_response = <<>>
    /\ sc_result = <<>>
    /\ IdleLookup
    /\ IdleBatch
    /\ IdleAnalysis
    /\ IdleStatus
    /\ IdleConfig
    /\ IdleStudent
    /\ IdleAuth
    /\ IdleRoutes
    /\ IdleNormalize
    /\ IdleStore
    /\ IdleReport
    /\ IdleThreads

\* POST /configure, for this subject's answer key.  A request without the
\* subject's file stores an empty list for it (another subject's key made the
\* request valid); a file that parses to no entry is answered with 400 and
\* stores nothing.  Requests are served one at a time.
ConfigureAnswers(upload) ==
    /\ sc_result = <<>>
    /\ IF upload = <<>>
       THEN /\ sc_configured' = TRUE
            /\ sc_answers' = <<>>
       ELSE IF parse_answer_key(upload[1]) = <<>>
       THEN UNCHANGED <<sc_configured, sc_answers>>
       ELSE /\ sc_configured' = TRUE
            /\ sc_answers' = parse_answer_key(upload[1])
    /\ UNCHANGED <<sc_key, sc_response, sc_result>>
    /\ UNCHANGED <<lookupVars, batchVars, analysisVars, statusVars, configVars, studentVars, authVars, routeVars, normalizeVars, storeVars, reportVars, threadVars>>

\* A marking route scores the Reading sheet whose detection is clean_response.
MarkSheet(prefix, clean_response) ==
    /\ sc_configured
    /\ sc_result = <<>>
    /\ sc_key' = PrefixedKey(prefix, sc_answers)
    /\ sc_response' = clean_response
    /\ sc_result' = <<process_single_subject(clean_response,
                                             PrefixedKey(prefix, sc_answers),
                                             "Reading")>>
    /\ UNCHANGED <<sc_configured, sc_answers>>
    /\ UNCHANGED <<lookupVars, batchVars, analysisVars, statusVars, configVars, studentVars, authVars, routeVars, normalizeVars, storeVars, reportVars, threadVars>>

\* The route returns its response; the request's values are dropped.
ReturnResult ==
    /\ sc_result # <<>>
    /\ sc_key' = <<>>
    /\ sc_response' = <<>>
    /\ sc_result' = <<>>
    /\ UNCHANGED <<sc_configured, sc_answers>>
    /\ UNCHANGED <<lookupVars, batchVars, analysisVars, statusVars, configVars, studentVars, authVars, routeVars, normalizeVars, storeVars, reportVars, threadVars>>

NextScore ==
    \/ \E upload \in AnswerUploads : ConfigureAnswers(upload)
    \/ \E prefix \in ReadingKeyPrefixes, clean_response \in ScoreResponses :
          MarkSheet(prefix, clean_response)
    \/ ReturnResult

SpecScore == InitScore /\ [][NextScore]_vars

-----------------------------------------------------------------------------
(* Scoring: claims C1, C2, C3 and C6 *)

Scored == sc_result # <<>>

Result == sc_result[1]

NumCorrect(results) == Cardinality({i \in 1..Len(results) : results[i].is_correct})

\* C1: scoring returns one QuestionResult per answer-key entry, in the answer
\* key's order, with score = number of correct results and
\* total_questions = len(results) = len(answer key).
C1_OneResultPerEntry ==
    Scored =>
        /\ Len(Result.results) = Len(sc_key)
        /\ \A i \in 1..Len(sc_key) :
              /\ Result.results[i].label = sc_key[i].key
              /\ Result.results[i].correct_value = sc_key[i].value
        /\ Result.score = NumCorrect(Result.results)
        /\ Result.total_questions = Len(Result.results)
        /\ Result.total_questions = Len(sc_key)

\* A two-entry key was scored with exactly one entry correct.
C1_Witness ==
    /\ Scored
    /\ Len(sc_key) = 2
    /\ Len(sc_response) = 1
    /\ Result.score = 1

\* The raw value that label resolution finds for entry i of the answer key.
RawMarked(i) == lookup_response(sc_response, sc_key[i].key)

IsMultiValue(v) == v.kind = "list" /\ Len(v.items) > 1

\* C2: a result whose raw detected value has more than one entry is never
\* correct, whatever the correct value.
C2_MultiMarkNeverCorrect ==
    Scored =>
        \A i \in 1..Len(sc_key) :
            IsMultiValue(RawMarked(i)) => ~Result.results[i].is_correct

\* A multi-mark was scored against a correct value that spells the same
\* comma-joined text, and was not credited.
C2_Witness ==
    /\ Scored
    /\ \E i \in 1..Len(sc_key) :
          /\ IsMultiValue(RawMarked(i))
          /\ sc_key[i].value = <<"B", ",", "C">>
          /\ Result.results[i].marked_value = <<"B", ",", "C">>
          /\ ~Result.results[i].is_correct

\* No resolution step finds the label among the fields of the response.
Unresolved(label) ==
    LET keys == DictKeys(sc_response)
        num  == TrailingDigits(label)
    IN  /\ \A k \in keys : Lower(k) # Lower(label)
        /\ num # <<>> => /\ num \notin keys
                         /\ \A p \in 1..Len(DocumentedAliases) :
                               (DocumentedAliases[p] \o num) \notin keys

\* C3: an answer-key entry whose label no resolution step finds is scored
\* blank and incorrect, for every correct value.
C3_AbsentLabelBlankIncorrect ==
    Scored =>
        \A i \in 1..Len(sc_key) :
            Unresolved(sc_key[i].key) =>
                /\ Result.results[i].marked_value = Blank
                /\ ~Result.results[i].is_correct

\* A response with fields, none of which answers the second entry of the key.
C3_Witness ==
    /\ Scored
    /\ Len(sc_key) = 2
    /\ sc_response # <<>>
    /\ Unresolved(sc_key[2].key)
    /\ ~Unresolved(sc_key[1].key)
    /\ Result.results[2].marked_value = Blank

ScenarioAKey ==
    << [key |-> <<"R", "C", "1">>, value |-> <<"A">>],
       [key |-> <<"R", "C", "2">>, value |-> <<"B">>] >>

ScenarioAResponse ==
    << [key |-> <<"r", "c", "1">>, value |-> StrValue(<<"A">>)],
       [key |-> <<"R", "C", "2">>, value |-> ListValue(<<<<"B">>, <<"C">>>>)] >>

\* C6: when the resolved raw value is a single value, the result is correct
\* exactly when the value, trimmed and upper-cased, equals the correct value
\* ignoring case; and scenario A gives true for RC1 and false for RC2.
C6_SingleValueCorrectness ==
    Scored =>
        /\ \A i \in 1..Len(sc_key) :
              IsSingleValue(RawMarked(i)) =>
                  ( Result.results[i].is_correct
                    <=> Upper(Strip(RawMarked(i).items[1])) = Upper(sc_key[i].value) )
        /\ (sc_key = ScenarioAKey /\ sc_response = ScenarioAResponse)
              => /\ Result.results[1].is_correct
                 /\ ~Result.results[2].is_correct

\* Scenario A has been scored.
C6_Witness ==
    /\ Scored
    /\ sc_key = ScenarioAKey
    /\ sc_response = ScenarioAResponse
    /\ Result.score = 1

-----------------------------------------------------------------------------
(* Batch specification: POST /configure followed by POST /batch/process,   *)
(* whose loop calls _process_batch_student once per student of the         *)
(* manifest and appends the returned row to summary_rows.                  *)

\* Largest number of lines in an answer-key file of the batch specification.
MaxBatchAnswers == 2

\* Largest number of students in a manifest.
MaxStudents == 2

\* Answer-key uploads: none, or a newline-separated file of answers.
BatchUploads == {<<>>} \cup {<<f>> : f \in SeqsUpTo({<<"A">>}, MaxBatchAnswers)}

\* The fields of the SubjectResult dataclass, and those without a default.
SubjectResultFields ==
    { "subject_name", "score", "total_questions", "results", "omr_response",
      "marked_image", "template" }

SubjectResultRequired ==
    { "subject_name", "score", "total_questions", "results", "omr_response",
      "marked_image" }

\* The generated __init__ raises TypeError for a keyword that is no field,
\* and for a missing field that has no default.
ConstructorAccepts(keywords) ==
    /\ keywords \subseteq SubjectResultFields
    /\ SubjectResultRequired \subseteq keywords

\* The keywords with which _process_batch_student builds the two halves.
SplitKeywords ==
    { "subject_name", "score", "total_questions", "results", "omr_response",
      "marked_image", "template", "clean_image" }

\* The value a sheet of the student leads to: the file is in the upload or
\* not, process_single_subject raises on it or reads clean_response from it.
ReadingSheets ==
    { [found |-> FALSE, readable |-> FALSE, response |-> <<>>],
      [found |-> TRUE, readable |-> FALSE, response |-> <<>>],
      [found |-> TRUE, readable |-> TRUE, response |-> <<>>],
      [found |-> TRUE, readable |-> TRUE,
       response |-> << [key |-> <<"r", "c", "1">>, value |-> StrValue(<<"A">>)] >>],
      [found |-> TRUE, readable |-> TRUE,
       response |-> << [key |-> <<"R", "C", "1">>, value |-> StrValue(<<"B">>)],
                       [key |-> <<"R", "C", "2">>, value |-> StrValue(<<"A">>)] >>] }

QrarSheets ==
    { [found |-> FALSE, readable |-> FALSE, response |-> <<>>],
      [found |-> TRUE, readable |-> FALSE, response |-> <<>>],
      [found |-> TRUE, readable |-> TRUE,
       response |-> << [key |-> <<"Q", "R", "1">>, value |-> StrValue(<<"A">>)] >>],
      [found |-> TRUE, readable |-> TRUE,
       response |-> << [key |-> <<"Q", "R", "1">>, value |-> StrValue(<<"A">>)],
                       [key |-> <<"A", "R", "1">>, value |-> StrValue(<<"B">>)] >>],
      [found |-> TRUE, readable |-> TRUE,
       response |-> << [key |-> <<"Q", "R", "1">>, value |-> StrValue(<<"B">>)],
                       [key |-> <<"Q", "R", "2">>, value |-> StrValue(<<"A">>)],
                       [key |-> <<"A", "R", "1">>, value |-> StrValue(<<"A">>)],
                       [key |-> <<"A", "R", "2">>, value |-> ListValue(<<<<"A">>, <<"B">>>>)] >>] }

Students == [reading : ReadingSheets, qrar : QrarSheets]

\* MarkingConfiguration.is_configured
is_configured(config) ==
    config.reading_answers # <<>> \/ config.qr_answers # <<>> \/ config.ar_answers # <<>>

\* require_configuration: the session has a configuration and it is configured.
PassesRequireConfiguration(stored) ==
    stored # <<>> /\ is_configured(stored[1])

\* An uploaded answer key parses to its entries, no upload to the empty list.
UploadedList(upload) == IF upload = <<>> THEN <<>> ELSE parse_answer_key(upload[1])

\* configure_marking answers 400: an uploaded key without entries, or no key.
ConfigureRejects(reading, qr, ar) ==
    \/ reading # <<>> /\ UploadedList(reading) = <<>>
    \/ qr # <<>> /\ UploadedList(qr) = <<>>
    \/ ar # <<>> /\ UploadedList(ar) = <<>>
    \/ UploadedList(reading) = <<>> /\ UploadedList(qr) = <<>> /\ UploadedList(ar) = <<>>

\* The combined key of the QR/AR sheet: QR1.. followed by AR1..
QrarKey(config) ==
    PrefixedKey(<<"Q", "R">>, config.qr_answers) \o PrefixedKey(<<"A", "R">>, config.ar_answers)

\* What a call of _process_batch_student leaves: the row it returns, and the
\* values its locals held when it returned (<<>> for a local not assigned).
Frame(row, reading_result, qrar_result, split, qr_result, ar_result) ==
    [ status |-> row.status, reading_score |-> row.reading_score,
      qr_score |-> row.qr_score, ar_score |-> row.ar_score,
      notes |-> row.notes, artifacts |-> row.artifacts,
      reading_result |-> reading_result, qrar_result |-> qrar_result,
      split |-> split, qr_result |-> qr_result, ar_result |-> ar_result ]

\* The row of the except branch.
ErrorRow(notes) ==
    [ status |-> "Error", reading_score |-> <<>>, qr_score |-> <<>>, ar_score |-> <<>>,
      notes |-> notes, artifacts |-> {} ]

\* sum(1 for q in results if getattr(q, 'is_correct', False))
RECURSIVE CountCorrect(_)
CountCorrect(results) ==
    IF results = <<>> THEN 0
    ELSE (IF Head(results).is_correct THEN 1 ELSE 0) + CountCorrect(Tail(results))

\* A slice that starts one entry late.
SliceFromNext(results, a, b) ==
    SubSeq(results, a + 2, IF b < Len(results) THEN b ELSE Len(results))

\* results[a:b] of Python, for 0 <= a <= b.
Slice(results, a, b) ==
    SubSeq(results, a + 1, IF b < Len(results) THEN b ELSE Len(results))

\* A half of the combined result, as built at lines 299-318.
HalfResult(subject_name, score, total_questions, results, qrar_result) ==
    [ subject_name    |-> subject_name,
      score           |-> score,
      total_questions |-> total_questions,
      results         |-> results,
      omr_response    |-> qrar_result.omr_response ]

\* Lines 285-296: the slices of the combined results and their scores.
SplitResults(qrar_result, qr_len, ar_len) ==
    [ qr_results |-> Slice(qrar_result.results, 0, qr_len),
      ar_results |-> Slice(qrar_result.results, qr_len, qr_len + ar_len),
      qr_score   |-> CountCorrect(Slice(qrar_result.results, 0, qr_len)),
      ar_score   |-> CountCorrect(Slice(qrar_result.results, qr_len, qr_len + ar_len)) ]

\* Lines 298-368: the two halves are built, the sheets annotated, the report
\* generated when a concept mapping exists, and the Success row returned;
\* a TypeError of the SubjectResult constructor ends in the except branch.
FinishStudent(config, reading_result, qrar_result, split) ==
    IF ~ConstructorAccepts(SplitKeywords)
    THEN Frame(ErrorRow("TypeError: unexpected keyword argument clean_image"),
               <<reading_result>>, <<qrar_result>>, <<split>>, <<>>, <<>>)
    ELSE Frame([ status |-> "Success",
                 reading_score |-> <<reading_result.score>>,
                 qr_score |-> <<split.qr_score>>,
                 ar_score |-> <<split.ar_score>>,
                 notes |-> "",
                 artifacts |->
                     {"Reading_Marked.pdf", "QRAR_Marked.pdf"} \cup
                     (IF config.has_concept_mapping
                      THEN {"Report.docx", "results.json"} ELSE {}) ],
               <<reading_result>>, <<qrar_result>>, <<split>>,
               <<HalfResult("Quantitative Reasoning", split.qr_score,
                            Len(config.qr_answers), split.qr_results, qrar_result)>>,
               <<HalfResult("Abstract Reasoning", split.ar_score,
                            Len(config.ar_answers), split.ar_results, qrar_result)>>)

\* Lines 276-296: the combined sheet is marked and its results are split.
MarkCombined(config, student, reading_result) ==
    IF ~student.qrar.readable
    THEN Frame(ErrorRow("QRAR marking raised"), <<reading_result>>, <<>>, <<>>, <<>>, <<>>)
    ELSE FinishStudent(config, reading_result,
                       process_single_subject(student.qrar.response, QrarKey(config),
                                              "QR/AR"),
                       SplitResults(process_single_subject(student.qrar.response,
                                                           QrarKey(config), "QR/AR"),
                                    Len(config.qr_answers), Len(config.ar_answers)))

\* _process_batch_student for one student.
process_batch_student(config, student) ==
    IF ~student.reading.found
    THEN Frame(ErrorRow("Reading file not found"), <<>>, <<>>, <<>>, <<>>, <<>>)
    ELSE IF ~student.qrar.found
    THEN Frame(ErrorRow("QRAR file not found"), <<>>, <<>>, <<>>, <<>>, <<>>)
    ELSE IF ~student.reading.readable
    THEN Frame(ErrorRow("Reading marking raised"), <<>>, <<>>, <<>>, <<>>, <<>>)
    ELSE MarkCombined(config, student,
                      process_single_subject(student.reading.response,
                                             PrefixedKey(<<"R", "C">>, config.reading_answers),
                                             "Reading"))

\* What the manifest entry of a student comes to: a sheet it names is not
\* in the upload, or both are and process_single_subject raises on one.
ManifestEntry(student) ==
    [ missing |-> ~student.reading.found \/ ~student.qrar.found,
      raises  |-> /\ student.reading.found /\ student.qrar.found
                  /\ (~student.reading.readable \/ ~student.qrar.readable) ]

InitBatch ==
    /\ bt_config = <<>>
    /\ bt_rows = <<>>
    /\ bt_student = <<>>
    /\ bt_manifest = <<>>
    /\ IdleLookup
    /\ IdleScore
    /\ IdleAnalysis
    /\ IdleStatus
    /\ IdleConfig
    /\ IdleStudent
    /\ IdleAuth
    /\ IdleRoutes
    /\ IdleNormalize
    /\ IdleStore
    /\ IdleReport
    /\ IdleThreads

\* POST /configure outside a batch request.
BatchConfigure(reading, qr, ar, has_mapping) ==
    /\ bt_rows = <<>>
    /\ bt_student = <<>>
    /\ IF ConfigureRejects(reading, qr, ar)
       THEN UNCHANGED bt_config
       ELSE bt_config' = << [ reading_answers |-> UploadedList(reading),
                              qr_answers |-> UploadedList(qr),
                              ar_answers |-> UploadedList(ar),
                              has_concept_mapping |-> has_mapping ] >>
    /\ UNCHANGED <<bt_rows, bt_student, bt_manifest>>
    /\ UNCHANGED <<lookupVars, scoreVars, analysisVars, statusVars, configVars, studentVars, authVars, routeVars, normalizeVars, storeVars, reportVars, threadVars>>

\* The loop of process_batch calls _process_batch_student for the next student.
ProcessBatchStudent(student) ==
    /\ PassesRequireConfiguration(bt_config)
    /\ bt_student = <<>>
    /\ Len(bt_rows) < MaxStudents
    /\ bt_student' = <<process_batch_student(bt_config[1], student)>>
    /\ bt_manifest' = Append(bt_manifest, ManifestEntry(student))
    /\ UNCHANGED <<bt_config, bt_rows>>
    /\ UNCHANGED <<lookupVars, scoreVars, analysisVars, statusVars, configVars, studentVars, authVars, routeVars, normalizeVars, storeVars, reportVars, threadVars>>

\* A loop that leaves out the row of a student in error.
AppendSuccessRow ==
    /\ bt_student # <<>>
    /\ bt_rows' = IF bt_student[1].status = "Error" THEN bt_rows
                  ELSE Append(bt_rows, [ status |-> bt_student[1].status,
                                         reading_score |-> bt_student[1].reading_score,
                                         qr_score |-> bt_student[1].qr_score,
                                         ar_score |-> bt_student[1].ar_score,
                                         notes |-> bt_student[1].notes,
                                         artifacts |-> bt_student[1].artifacts ])
    /\ bt_student' = <<>>
    /\ UNCHANGED <<bt_config, bt_manifest>>
    /\ UNCHANGED <<lookupVars, scoreVars, analysisVars, statusVars, configVars, studentVars, authVars, routeVars, normalizeVars, storeVars, reportVars, threadVars>>

\* The loop appends the summary row of the student just processed.
AppendSummaryRow ==
    /\ bt_student # <<>>
    /\ bt_rows' = Append(bt_rows, [ status |-> bt_student[1].status,
                                    reading_score |-> bt_student[1].reading_score,
                                    qr_score |-> bt_student[1].qr_score,
                                    ar_score |-> bt_student[1].ar_score,
                                    notes |-> bt_student[1].notes,
                                    artifacts |-> bt_student[1].artifacts ])
    /\ bt_student' = <<>>
    /\ UNCHANGED <<bt_config, bt_manifest>>
    /\ UNCHANGED <<lookupVars, scoreVars, analysisVars, statusVars, configVars, studentVars, authVars, routeVars, normalizeVars, storeVars, reportVars, threadVars>>

\* process_batch returns the archive; the request's rows are dropped.
ReturnBatch ==
    /\ bt_rows # <<>>
    /\ bt_student = <<>>
    /\ bt_rows' = <<>>
    /\ bt_manifest' = <<>>
    /\ UNCHANGED <<bt_config, bt_student>>
    /\ UNCHANGED <<lookupVars, scoreVars, analysisVars, statusVars, configVars, studentVars, authVars, routeVars, normalizeVars, storeVars, reportVars, threadVars>>

NextBatch ==
    \/ \E reading, qr, ar \in BatchUploads, has_mapping \in BOOLEAN :
          BatchConfigure(reading, qr, ar, has_mapping)
    \/ \E student \in Students : ProcessBatchStudent(student)
    \/ AppendSummaryRow
    \/ ReturnBatch

SpecBatch == InitBatch /\ [][NextBatch]_vars

-----------------------------------------------------------------------------
(* Splitting the combined QR/AR result: claims C7 and C8 *)

\* _process_batch_student has scored the combined sheet of the student.
CombinedScored == bt_student # <<>> /\ bt_student[1].qrar_result # <<>>

Combined == bt_student[1].qrar_result[1]

\* The slices and recalculated scores of lines 291-296.
SplitComputed == bt_student # <<>> /\ bt_student[1].split # <<>>

Split == bt_student[1].split[1]

\* C7: once a combined result is scored it is sliced in two; the recalculated
\* scores of the slices add up to the combined score, and the slices hold,
\* in order, exactly the QuestionResults of the combined result, each with
\* the is_correct it had there.
C7_SplitPreservesScores ==
    CombinedScored =>
        /\ SplitComputed
        /\ Split.qr_score + Split.ar_score = Combined.score
        /\ Split.qr_results \o Split.ar_results = Combined.results

\* A four-question combined result with correct answers in both slices.
C7_Witness ==
    /\ SplitComputed
    /\ Len(Split.qr_results) = 2
    /\ Len(Split.ar_results) = 2
    /\ Split.qr_score = 1
    /\ Split.ar_score = 1
    /\ Combined.score = 2

HalvesBuilt == bt_student[1].qr_result # <<>> /\ bt_student[1].ar_result # <<>>

QrHalf == bt_student[1].qr_result[1]

ArHalf == bt_student[1].ar_result[1]

\* C8: a scored combined result is split into a subject result holding the
\* first len(qr_answers) results and one holding the next len(ar_answers);
\* each half's score counts the correct results of its slice and its
\* total_questions is the length of its slice.
C8_SplitBySlices ==
    CombinedScored =>
        /\ HalvesBuilt
        /\ QrHalf.results = SubSeq(Combined.results, 1, Len(bt_config[1].qr_answers))
        /\ ArHalf.results = SubSeq(Combined.results, Len(bt_config[1].qr_answers) + 1,
                                   Len(bt_config[1].qr_answers) + Len(bt_config[1].ar_answers))
        /\ QrHalf.score = NumCorrect(QrHalf.results)
        /\ ArHalf.score = NumCorrect(ArHalf.results)
        /\ QrHalf.total_questions = Len(QrHalf.results)
        /\ ArHalf.total_questions = Len(ArHalf.results)

-----------------------------------------------------------------------------
(* The rows of a batch: claims C27 and C28 *)

\* C27: the loop of process_batch leaves exactly one row per student of
\* the manifest, in the order of the manifest; the row of a student with a
\* missing sheet or a marking that raises has status "Error", the error
\* text in notes, empty scores and no artifacts; the rows of the students
\* before are what they were.
C27_OneRowPerStudent ==
    [][ /\ Len(bt_rows') + (IF bt_student' = <<>> THEN 0 ELSE 1) = Len(bt_manifest')
        /\ \A i \in 1..Len(bt_rows') :
              (bt_manifest'[i].missing \/ bt_manifest'[i].raises) =>
                 /\ bt_rows'[i].status = "Error"
                 /\ bt_rows'[i].notes # ""
                 /\ bt_rows'[i].reading_score = <<>>
                 /\ bt_rows'[i].qr_score = <<>>
                 /\ bt_rows'[i].ar_score = <<>>
                 /\ bt_rows'[i].artifacts = {}
        /\ bt_rows' # <<>> =>
              \A i \in 1..Len(bt_rows) : bt_rows'[i] = bt_rows[i] ]_vars

\* Two rows: a student whose Reading sheet is missing, then a student
\* whose combined sheet cannot be marked.
C27_Witness ==
    /\ Len(bt_rows) = 2
    /\ bt_manifest = <<[missing |-> TRUE, raises |-> FALSE],
                       [missing |-> FALSE, raises |-> TRUE]>>
    /\ bt_rows[1].notes = "Reading file not found"
    /\ bt_rows[2].notes = "QRAR marking raised"

\* C28: when both sheets of a student are found and both markings return,
\* the row of the student has status "Success", and its QR and AR scores
\* count the correct results among the first len(qr_answers) and the next
\* len(ar_answers) entries of the combined result.
C28_SuccessRowScores ==
    CombinedScored =>
        /\ bt_student[1].status = "Success"
        /\ bt_student[1].qr_score
              = <<NumCorrect(SubSeq(Combined.results, 1, Len(bt_config[1].qr_answers)))>>
        /\ bt_student[1].ar_score
              = <<NumCorrect(SubSeq(Combined.results, Len(bt_config[1].qr_answers) + 1,
                                    Len(bt_config[1].qr_answers)
                                       + Len(bt_config[1].ar_answers)))>>

-----------------------------------------------------------------------------
(* AnalysisService: src/web/services/analysis.py.  concept_map is a dict    *)
(* subject -> (dict area -> list of question ids), each dict a sequence of  *)
(* [key, value] records in insertion order.  A percentage is the exact      *)
(* quotient num / den of the float expression that computes it.             *)

THRESHOLD == 51

\* normalize_label: the digits of the label, in order.
RECURSIVE normalize_label(_)
normalize_label(label) ==
    IF label = <<>> THEN <<>>
    ELSE (IF IsDigit(Head(label)) THEN <<Head(label)>> ELSE <<>>)
         \o normalize_label(Tail(label))

\* correct_lookup.get(normalized_q, False), correct_lookup being the dict
\* comprehension over question_results: a later entry replaces an earlier
\* one with the same normalized label.
CorrectLookupGet(question_results, normalized_q) ==
    LET hits == { i \in 1..Len(question_results) :
                    normalize_label(question_results[i].label) = normalized_q }
    IN  IF hits = {} THEN FALSE
        ELSE question_results[CHOOSE i \in hits : \A j \in hits : j <= i].is_correct

\* correct_count after the inner loop over the area's questions.
RECURSIVE CorrectCount(_, _)
CorrectCount(question_results, questions) ==
    IF questions = <<>> THEN 0
    ELSE (IF CorrectLookupGet(question_results, normalize_label(Head(questions)))
          THEN 1 ELSE 0)
         + CorrectCount(question_results, Tail(questions))

\* The quotient without the total > 0 test: den = 0 is the division error.
PercentageUnguarded(correct_count, total) ==
    [num |-> correct_count * 100, den |-> total]

\* (correct_count / total * 100.0) if total > 0 else 0.0
Percentage(correct_count, total) ==
    IF total > 0 THEN [num |-> correct_count * 100, den |-> total]
    ELSE [num |-> 0, den |-> 1]

\* A comparison that leaves the threshold itself out.
AboveThreshold(percentage) == percentage.num > THRESHOLD * percentage.den

\* percentage >= self.THRESHOLD
AtLeastThreshold(percentage) == percentage.num >= THRESHOLD * percentage.den

\* "Done well" if percentage >= self.THRESHOLD else "Needs improvement"
AreaStatus(percentage) ==
    IF AtLeastThreshold(percentage) THEN "Done well" ELSE "Needs improvement"

\* The end of the loop body: percentage, status and the LearningAreaResult
\* appended for an area whose inner loop counted correct_count of total.
AreaRecord(area, correct_count, total, question_numbers) ==
    [ area             |-> area,
      correct          |-> correct_count,
      total            |-> total,
      percentage       |-> Percentage(correct_count, total),
      status           |-> AreaStatus(Percentage(correct_count, total)),
      question_numbers |-> question_numbers ]

\* The loop body with the question numbers listed in ascending order.
LearningAreaResultSorted(area, questions, question_results) ==
    AreaRecord(area, CorrectCount(question_results, questions), Len(questions),
               Join(<<",", " ">>,
                    Sorted([i \in 1..Len(questions) |-> normalize_label(questions[i])])))

\* The body of the loop over subject_map.items() for one area.
LearningAreaResult(area, questions, question_results) ==
    AreaRecord(area, CorrectCount(question_results, questions), Len(questions),
               Join(<<",", " ">>,
                    [i \in 1..Len(questions) |-> normalize_label(questions[i])]))

\* self.concept_map.get(subject, {})
SubjectMap(concept_map, subject) ==
    IF subject \in DictKeys(concept_map) THEN DictGet(concept_map, subject) ELSE <<>>

\* mapped_questions after the loop: the ids of every area, as written.
MappedQuestions(subject_map) ==
    UNION { { subject_map[a].value[i] : i \in 1..Len(subject_map[a].value) } :
            a \in 1..Len(subject_map) }

\* all_labels
AllLabels(question_results) ==
    { question_results[i].label : i \in 1..Len(question_results) }

\* all_labels - mapped_questions
UnmappedSet(subject_map, question_results) ==
    AllLabels(question_results) \ MappedQuestions(subject_map)

\* list(a set): its elements once each, in an order the language leaves open.
ListsOf(S) ==
    { q \in SeqsUpTo(S, Cardinality(S)) :
        Len(q) = Cardinality(S) /\ \A i, j \in 1..Len(q) : i # j => q[i] # q[j] }

\* analyze_subject_performance; unmapped is the list made of the unmapped set.
analyze_subject_performance(concept_map, subject, question_results, unmapped) ==
    LET subject_map == SubjectMap(concept_map, subject)
    IN  [ subject            |-> subject,
          area_results       |-> [a \in 1..Len(subject_map) |->
                                    LearningAreaResult(subject_map[a].key,
                                                       subject_map[a].value,
                                                       question_results)],
          unmapped_questions |-> unmapped ]

-----------------------------------------------------------------------------
(* Inputs of the analysis specification *)

\* Largest number of areas of a subject in a concept mapping.
MaxAreas == 1

\* Largest number of question ids listed for an area.
MaxAreaQuestions == 2

\* Largest number of questions on an analysed sheet.
MaxAnalysisQuestions == 2

\* The subjects generate_full_analysis analyses, in its order.
Subjects == <<"Reading", "Quantitative Reasoning", "Abstract Reasoning">>

AreaNames == <<"Vocabulary", "Inference", "Main idea">>

QuestionIds == { <<"1">>, <<"q", "2">>, <<"x">>, <<" ">> }

\* validate_concept_mapping accepts the id: a string that is not blank.
ValidQuestionId(question) == Strip(question) # <<>>

AreaQuestionLists ==
    SeqsUpTo({q \in QuestionIds : ValidQuestionId(q)}, MaxAreaQuestions)

\* The areas dict of one subject: the first names of AreaNames, in order.
AreasDict(lists) ==
    [a \in 1..Len(lists) |-> [key |-> AreaNames[a], value |-> lists[a]]]

\* The concept mappings configure_marking stores: none uploaded, or a
\* validated JSON object naming one subject.
ConceptMaps ==
    {<<>>} \cup
    { <<[key |-> Subjects[s], value |-> AreasDict(lists)]>> :
        s \in 1..Len(Subjects), lists \in SeqsUpTo(AreaQuestionLists, MaxAreas) }

\* The answer key process_single_student builds for a sheet of n questions
\* whose correct answers are all A.
SheetKey(n) == PrefixedKey(<<>>, [i \in 1..n |-> <<"A">>])

\* A sheet read with one bubble marked per question.
SheetResponse(marks) ==
    [i \in 1..Len(marks) |-> [key |-> IntToStr(i), value |-> StrValue(marks[i])]]

SheetMarks == SeqsUpTo({<<"A">>, <<"B">>}, MaxAnalysisQuestions)

\* The placeholder passed for Abstract Reasoning by process_single_student.
empty_ar ==
    [ subject_name    |-> "AR",
      score           |-> 0,
      total_questions |-> 0,
      results         |-> <<>>,
      omr_response    |-> <<>> ]

\* The SubjectResult process_single_student hands over for the s-th subject:
\* reading_result, qrar_result, empty_ar.
SubjectResultsFor(s) ==
    IF s = 3 THEN {empty_ar}
    ELSE { process_single_subject(SheetResponse(marks), SheetKey(Len(marks)),
                                  IF s = 1 THEN "Reading" ELSE "QR/AR") :
           marks \in SheetMarks }

\* [{"label": q.label, "is_correct": q.is_correct} for q in result.results]
QuestionResultsOf(result) ==
    [i \in 1..Len(result.results) |->
        [label |-> result.results[i].label, is_correct |-> result.results[i].is_correct]]

\* The calls generate_full_analysis makes for the sheets of a student.
AnalysisCalls ==
    UNION { { [subject |-> Subjects[s], question_results |-> QuestionResultsOf(result)] :
              result \in SubjectResultsFor(s) } : s \in 1..Len(Subjects) }

-----------------------------------------------------------------------------
(* Analysis specification: an AnalysisService built on a concept mapping    *)
(* analyses the subjects of scored sheets, one call at a time.              *)

InitAnalysis ==
    /\ an_concept_map \in ConceptMaps
    /\ an_request = <<>>
    /\ an_analysis = <<>>
    /\ IdleLookup
    /\ IdleScore
    /\ IdleBatch
    /\ IdleStatus
    /\ IdleConfig
    /\ IdleStudent
    /\ IdleAuth
    /\ IdleRoutes
    /\ IdleNormalize
    /\ IdleStore
    /\ IdleReport
    /\ IdleThreads

\* One call of analyze_subject_performance from generate_full_analysis.
AnalyzeSubject(subject, question_results) ==
    /\ an_request = <<>>
    /\ \E unmapped \in ListsOf(UnmappedSet(SubjectMap(an_concept_map, subject),
                                           question_results)) :
          an_analysis' = <<analyze_subject_performance(an_concept_map, subject,
                                                       question_results, unmapped)>>
    /\ an_request' = <<[subject |-> subject, question_results |-> question_results]>>
    /\ UNCHANGED an_concept_map
    /\ UNCHANGED <<lookupVars, scoreVars, batchVars, statusVars, configVars, studentVars, authVars, routeVars, normalizeVars, storeVars, reportVars, threadVars>>

\* The SubjectAnalysis has been consumed by the caller.
ReturnAnalysis ==
    /\ an_request # <<>>
    /\ an_request' = <<>>
    /\ an_analysis' = <<>>
    /\ UNCHANGED an_concept_map
    /\ UNCHANGED <<lookupVars, scoreVars, batchVars, statusVars, configVars, studentVars, authVars, routeVars, normalizeVars, storeVars, reportVars, threadVars>>

NextAnalysis ==
    \/ \E call \in AnalysisCalls : AnalyzeSubject(call.subject, call.question_results)
    \/ ReturnAnalysis

SpecAnalysis == InitAnalysis /\ [][NextAnalysis]_vars

-----------------------------------------------------------------------------
(* Concept aggregation: claims C9 and C10 *)

Analyzed == an_analysis # <<>>

Analysis == an_analysis[1]

Request == an_request[1]

\* The areas the concept mapping lists for the analysed subject.
RequestMap == SubjectMap(an_concept_map, Request.subject)

\* Some question id of some area has the digits of the label.
DigitsMatchSomeId(label) ==
    \E a \in 1..Len(RequestMap) : \E i \in 1..Len(RequestMap[a].value) :
        normalize_label(RequestMap[a].value[i]) = normalize_label(label)

UnmappedReported ==
    { Analysis.unmapped_questions[i] : i \in 1..Len(Analysis.unmapped_questions) }

\* C9: in every SubjectAnalysis, unmapped_questions holds scored labels only,
\* and a scored label is in it exactly when no question id of any area of
\* the subject has the label's digits; so the labels the areas cover and
\* the unmapped ones are disjoint and make up all scored labels.
C9_UnmappedIffNoDigitMatch ==
    Analyzed =>
        /\ UnmappedReported \subseteq AllLabels(Request.question_results)
        /\ \A label \in AllLabels(Request.question_results) :
              (label \in UnmappedReported) <=> ~DigitsMatchSomeId(label)

\* The ids of the a-th area whose digits are those of a correct scored question.
CorrectIds(a) ==
    { i \in 1..Len(RequestMap[a].value) :
        \E k \in 1..Len(Request.question_results) :
            /\ normalize_label(Request.question_results[k].label)
                  = normalize_label(RequestMap[a].value[i])
            /\ Request.question_results[k].is_correct }

\* C10: every LearningAreaResult has total = number of ids listed for its
\* area, correct = number of those ids whose digits are those of a correct
\* scored question, percentage = 100 * correct / total when total > 0 and
\* 0.0 when total = 0, hence 0 <= correct <= total and
\* 0.0 <= percentage <= 100.0.
C10_AreaResultCounts ==
    Analyzed =>
        /\ Len(Analysis.area_results) = Len(RequestMap)
        /\ \A a \in 1..Len(Analysis.area_results) :
              LET r == Analysis.area_results[a]
              IN  /\ r.total = Len(RequestMap[a].value)
                  /\ r.correct = Cardinality(CorrectIds(a))
                  /\ r.percentage.den > 0
                  /\ r.total > 0 =>
                        r.percentage.num * r.total = 100 * r.correct * r.percentage.den
                  /\ r.total = 0 => r.percentage.num = 0
                  /\ 0 <= r.correct /\ r.correct <= r.total
                  /\ 0 <= r.percentage.num
                  /\ r.percentage.num <= 100 * r.percentage.den

\* An area of two ids, one of them a correct question's: 1 of 2, 50 percent.
C10_Witness ==
    /\ Analyzed
    /\ Len(Analysis.area_results) = 1
    /\ Analysis.area_results[1].total = 2
    /\ Analysis.area_results[1].correct = 1
    /\ Analysis.area_results[1].percentage.num
          = 50 * Analysis.area_results[1].percentage.den
    /\ Len(Request.question_results) = 2

-----------------------------------------------------------------------------
(* question_numbers: claim C24 *)

\* s.split(","): the pieces of s between its commas.
RECURSIVE SplitCommas(_, _)
SplitCommas(s, piece) ==
    IF s = <<>> THEN <<piece>>
    ELSE IF Head(s) = "," THEN <<piece>> \o SplitCommas(Tail(s), <<>>)
    ELSE SplitCommas(Tail(s), Append(piece, Head(s)))

\* The entries of a comma-joined list, without the blank after a comma.
ListedEntries(s) ==
    [i \in 1..Len(SplitCommas(s, <<>>)) |-> LStrip(SplitCommas(s, <<>>)[i])]

\* The digits of an identifier.
DigitsOf(question) == SelectSeq(question, IsDigit)

\* C24 as stated: question_numbers of every area lists the identifiers of
\* the area, as the mapping gives them and in its order, joined by
\* commas, one entry per identifier.
C24_QuestionNumbersListIds ==
    Analyzed =>
        \A a \in 1..Len(Analysis.area_results) :
           IF RequestMap[a].value = <<>>
           THEN Analysis.area_results[a].question_numbers = <<>>
           ELSE ListedEntries(Analysis.area_results[a].question_numbers)
                   = RequestMap[a].value

\* C24, with what the entries are: question_numbers of every area holds
\* one entry per identifier of the area, in the order of the mapping (not
\* sorted), joined by ", "; the entry is the digits of the identifier.
C24_QuestionNumbersDigitsInOrder ==
    Analyzed =>
        \A a \in 1..Len(Analysis.area_results) :
           IF RequestMap[a].value = <<>>
           THEN Analysis.area_results[a].question_numbers = <<>>
           ELSE LET entries == ListedEntries(Analysis.area_results[a].question_numbers)
                IN  /\ Len(entries) = Len(RequestMap[a].value)
                    /\ \A i \in 1..Len(entries) :
                          entries[i] = DigitsOf(RequestMap[a].value[i])
                    /\ Analysis.area_results[a].question_numbers
                          = Join(<<",", " ">>, entries)

\* An area listing q2 before 1 reports "2, 1".
C24_Witness ==
    /\ Analyzed
    /\ Len(RequestMap) = 1
    /\ RequestMap[1].value = << <<"q", "2">>, <<"1">> >>
    /\ Analysis.area_results[1].question_numbers = <<"2", ",", " ", "1">>

-----------------------------------------------------------------------------
(* Area-tally specification: the end of the loop body of                    *)
(* analyze_subject_performance (percentage, status, LearningAreaResult),    *)
(* applied to the tallies an area of up to MaxAreaTotal ids can end with.   *)

\* Largest number of ids of the tallied area.
MaxAreaTotal == 100

\* question_numbers of an area listing the questions 1..total.
TallyQuestionNumbers(total) ==
    Join(<<",", " ">>, [i \in 1..total |-> IntToStr(i)])

InitStatus ==
    /\ la_result = <<>>
    /\ IdleLookup
    /\ IdleScore
    /\ IdleBatch
    /\ IdleAnalysis
    /\ IdleConfig
    /\ IdleStudent
    /\ IdleAuth
    /\ IdleRoutes
    /\ IdleNormalize
    /\ IdleStore
    /\ IdleReport
    /\ IdleThreads

\* The inner loop ended with correct_count of total ids correct.
TallyArea(correct_count, total) ==
    /\ la_result = <<>>
    /\ la_result' = <<AreaRecord(AreaNames[1], correct_count, total,
                                 TallyQuestionNumbers(total))>>
    /\ UNCHANGED <<lookupVars, scoreVars, batchVars, analysisVars, configVars, studentVars, authVars, routeVars, normalizeVars, storeVars, reportVars, threadVars>>

\* The next area is tallied from scratch.
ReturnStatus ==
    /\ la_result # <<>>
    /\ la_result' = <<>>
    /\ UNCHANGED <<lookupVars, scoreVars, batchVars, analysisVars, configVars, studentVars, authVars, routeVars, normalizeVars, storeVars, reportVars, threadVars>>

NextStatus ==
    \/ \E total \in 0..MaxAreaTotal : \E correct_count \in 0..total :
          TallyArea(correct_count, total)
    \/ ReturnStatus

SpecStatus == InitStatus /\ [][NextStatus]_vars

-----------------------------------------------------------------------------
(* The status threshold: claim C11 *)

\* C11: a LearningAreaResult has status "Done well" exactly when its
\* percentage is at least 51.0, the threshold included, and
\* "Needs improvement" otherwise.
C11_StatusIffThreshold ==
    la_result # <<>> =>
        /\ la_result[1].status \in {"Done well", "Needs improvement"}
        /\ la_result[1].status = "Done well"
              <=> la_result[1].percentage.num >= 51 * la_result[1].percentage.den
        /\ la_result[1].total > 0 =>
              (la_result[1].status = "Done well"
                  <=> 100 * la_result[1].correct >= 51 * la_result[1].total)

\* One of two correct: 50.0, "Needs improvement".
C11_Witness ==
    /\ la_result # <<>>
    /\ la_result[1].correct = 1
    /\ la_result[1].total = 2
    /\ la_result[1].percentage.num = 50 * la_result[1].percentage.den
    /\ la_result[1].status = "Needs improvement"

-----------------------------------------------------------------------------
(* Concept-mapping uploads.  A JSON value as json.loads returns it is a     *)
(* record [kind, value]: "dict" with a sequence of [key, value] members in  *)
(* document order, "list" with a sequence of values, "str" with its         *)
(* characters, "int" with the number.                                       *)

JsonStr(s) == [kind |-> "str", value |-> s]

JsonInt(n) == [kind |-> "int", value |-> <<n>>]

JsonList(l) == [kind |-> "list", value |-> l]

JsonDict(d) == [kind |-> "dict", value |-> d]

\* One entry of the list validate_concept_mapping returns.
ValidationError(error, subject, area) ==
    [error |-> error, subject |-> subject, area |-> area]

\* The test of the innermost loop without the strip.
IsIdentifierUntrimmed(question) ==
    IF question.kind # "str" THEN FALSE ELSE question.value # <<>>

\* isinstance(question, str) and question.strip() is not empty.
IsIdentifier(question) ==
    IF question.kind # "str" THEN FALSE ELSE Strip(question.value) # <<>>

\* An innermost loop that accepts every item of the area's list.
QuestionErrorsUnchecked(subject, area, questions) == <<>>

\* The innermost loop: one error for each invalid identifier of the area.
RECURSIVE QuestionErrors(_, _, _)
QuestionErrors(subject, area, questions) ==
    IF questions = <<>> THEN <<>>
    ELSE (IF IsIdentifier(Head(questions)) THEN <<>>
          ELSE <<ValidationError("invalid question identifier", subject, area)>>)
         \o QuestionErrors(subject, area, Tail(questions))

\* The loop over areas.items() of one subject.
RECURSIVE AreaErrors(_, _)
AreaErrors(subject, areas) ==
    IF areas = <<>> THEN <<>>
    ELSE (IF Head(areas).value.kind # "list"
          THEN <<ValidationError("area must be a list", subject, Head(areas).key)>>
          ELSE QuestionErrors(subject, Head(areas).key, Head(areas).value.value))
         \o AreaErrors(subject, Tail(areas))

\* subject.startswith("_")
\* A test that takes no key for metadata.
StartsWithNothing(subject) == FALSE

StartsWithUnderscore(subject) == subject # <<>> /\ Head(subject) = "_"

\* The loop over concepts.items().
RECURSIVE SubjectErrors(_)
SubjectErrors(subjects) ==
    IF subjects = <<>> THEN <<>>
    ELSE (IF StartsWithUnderscore(Head(subjects).key) THEN <<>>
          ELSE IF Head(subjects).value.kind # "dict"
          THEN <<ValidationError("subject must map to an object", Head(subjects).key, <<>>)>>
          ELSE AreaErrors(Head(subjects).key, Head(subjects).value.value))
         \o SubjectErrors(Tail(subjects))

validate_concept_mapping(concepts) ==
    IF concepts.kind # "dict"
    THEN <<ValidationError("must be a JSON object", <<>>, <<>>)>>
    ELSE SubjectErrors(concepts.value)

-----------------------------------------------------------------------------
(* Inputs of the /configure specification *)

\* Largest number of identifiers in an uploaded area list.
MaxJsonQuestions == 1

ReadingSubject == <<"R", "e", "a", "d", "i", "n", "g">>

QuantitativeSubject ==
    <<"Q", "u", "a", "n", "t", "i", "t", "a", "t", "i", "v", "e", " ", "R", "e", "a", "s", "o", "n", "i", "n", "g">>

AbstractSubject ==
    <<"A", "b", "s", "t", "r", "a", "c", "t", " ", "R", "e", "a", "s", "o", "n", "i", "n", "g">>

InstructionsKey ==
    <<"_", "i", "n", "s", "t", "r", "u", "c", "t", "i", "o", "n", "s">>

VocabularyArea == <<"V", "o", "c", "a", "b", "u", "l", "a", "r", "y">>

\* What an uploaded area list holds: identifiers, a blank or empty string,
\* a number.
JsonQuestions ==
    { JsonStr(<<"1">>), JsonStr(<<" ">>), JsonStr(<<>>), JsonInt(1) }

\* The value of an area: a list, or a string where a list belongs.
JsonAreaValues ==
    { JsonList(l) : l \in SeqsUpTo(JsonQuestions, MaxJsonQuestions) }
    \cup { JsonStr(<<"1">>) }

\* The value of a subject: an object of areas, or a list where it belongs.
JsonSubjectValues ==
    { JsonDict(<<>>) }
    \cup { JsonDict(<<[key |-> VocabularyArea, value |-> v]>>) : v \in JsonAreaValues }
    \cup { JsonList(<<>>) }

\* The documents uploaded as concept mapping: objects of one subject, of a
\* key starting with "_", of both, the empty object, and a list.
JsonDocuments ==
    { JsonDict(<<>>), JsonList(<<>>) }
    \cup { JsonDict(<<[key |-> k, value |-> v]>>) :
             k \in {ReadingSubject, InstructionsKey}, v \in JsonSubjectValues }
    \cup { JsonDict(<<[key |-> InstructionsKey, value |-> JsonStr(<<"x">>)],
                      [key |-> ReadingSubject, value |-> v]>>) :
             v \in JsonSubjectValues }

\* The concept_mapping part of the form: no file, or a file with its
\* suffix and content; decodes says whether json.loads accepts the content.
ConceptUploads ==
    { <<>>,
      <<[suffix |-> ".txt", decodes |-> TRUE, json |-> JsonDict(<<>>)]>>,
      <<[suffix |-> ".json", decodes |-> FALSE, json |-> JsonDict(<<>>)]>> }
    \cup { <<[suffix |-> ".json", decodes |-> TRUE, json |-> j]>> : j \in JsonDocuments }

\* The answer-key parts of the form: no file, an empty file, a one-line file.
KeyUploads == { <<>>, << <<>> >>, << << <<"A">> >> >> }

-----------------------------------------------------------------------------
(* /configure specification: configure_marking answers one request at a     *)
(* time for a session; a response records the status code, the upload of    *)
(* the concept mapping, and what validate_concept_mapping returned when it  *)
(* was called.                                                              *)

ConfigureResponse(status_code, concept_mapping, validation) ==
    [ status_code     |-> status_code,
      concept_mapping |-> concept_mapping,
      validation      |-> validation ]

\* The MarkingConfiguration stored for the session.
MarkingConfiguration(reading, qr, ar, concepts) ==
    [ reading_answers |-> UploadedList(reading),
      qr_answers      |-> UploadedList(qr),
      ar_answers      |-> UploadedList(ar),
      concept_mapping |-> concepts ]

InitConfigure ==
    /\ cf_config = <<>>
    /\ cf_response = <<>>
    /\ IdleLookup
    /\ IdleScore
    /\ IdleBatch
    /\ IdleAnalysis
    /\ IdleStatus
    /\ IdleStudent
    /\ IdleAuth
    /\ IdleRoutes
    /\ IdleNormalize
    /\ IdleStore
    /\ IdleReport
    /\ IdleThreads

\* POST /configure with the four file parts of the form.
ConfigureMarking(reading, qr, ar, concept_mapping) ==
    /\ cf_response = <<>>
    /\ IF ConfigureRejects(reading, qr, ar)
       THEN /\ cf_response' = <<ConfigureResponse(400, concept_mapping, <<>>)>>
            /\ UNCHANGED cf_config
       ELSE IF concept_mapping = <<>>
       THEN /\ cf_config' = <<MarkingConfiguration(reading, qr, ar, JsonDict(<<>>))>>
            /\ cf_response' = <<ConfigureResponse(200, concept_mapping, <<>>)>>
       ELSE IF concept_mapping[1].suffix # ".json" \/ ~concept_mapping[1].decodes
       THEN /\ cf_response' = <<ConfigureResponse(400, concept_mapping, <<>>)>>
            /\ UNCHANGED cf_config
       ELSE IF validate_concept_mapping(concept_mapping[1].json) # <<>>
       THEN /\ cf_response' =
                 <<ConfigureResponse(400, concept_mapping,
                                     <<validate_concept_mapping(concept_mapping[1].json)>>)>>
            /\ UNCHANGED cf_config
       ELSE /\ cf_config' = <<MarkingConfiguration(reading, qr, ar, concept_mapping[1].json)>>
            /\ cf_response' = <<ConfigureResponse(200, concept_mapping, << <<>> >>)>>
    /\ UNCHANGED <<lookupVars, scoreVars, batchVars, analysisVars, statusVars, studentVars, authVars, routeVars, normalizeVars, storeVars, reportVars, threadVars>>

\* The response has been sent.
ConfigureDone ==
    /\ cf_response # <<>>
    /\ cf_response' = <<>>
    /\ UNCHANGED cf_config
    /\ UNCHANGED <<lookupVars, scoreVars, batchVars, analysisVars, statusVars, studentVars, authVars, routeVars, normalizeVars, storeVars, reportVars, threadVars>>

NextConfigure ==
    \/ \E reading, qr, ar \in KeyUploads : \E concept_mapping \in ConceptUploads :
          ConfigureMarking(reading, qr, ar, concept_mapping)
    \/ ConfigureDone

SpecConfigure == InitConfigure /\ [][NextConfigure]_vars

-----------------------------------------------------------------------------
(* Validation of the concept mapping: claim C15 *)

\* The structure the validator is to enforce; trimmed says whether an
\* identifier must be non-empty once trimmed, or just non-empty.
WellFormedMapping(concepts, trimmed) ==
    /\ concepts.kind = "dict"
    /\ \A s \in 1..Len(concepts.value) :
          \/ StartsWithUnderscore(concepts.value[s].key)
          \/ /\ concepts.value[s].value.kind = "dict"
             /\ \A a \in 1..Len(concepts.value[s].value.value) :
                   LET questions == concepts.value[s].value.value[a].value
                   IN  /\ questions.kind = "list"
                       /\ \A q \in 1..Len(questions.value) :
                             /\ questions.value[q].kind = "str"
                             /\ IF trimmed
                                THEN Strip(questions.value[q].value) # <<>>
                                ELSE questions.value[q].value # <<>>

\* validate_concept_mapping was called for the request being answered.
Validated == cf_response # <<>> /\ cf_response[1].validation # <<>>

ValidationErrors == cf_response[1].validation[1]

ValidatedDocument == cf_response[1].concept_mapping[1].json

\* C15: validate_concept_mapping reports an error exactly when the document
\* is not an object, a subject not starting with "_" is not an object, an
\* area is not a list, or an identifier is not a non-empty string;
\* /configure answers 400 to a document with errors, and the stored mapping
\* always has that structure.
C15_ValidationStrict ==
    /\ Validated =>
          /\ (ValidationErrors # <<>>) <=> ~WellFormedMapping(ValidatedDocument, FALSE)
          /\ (ValidationErrors # <<>>) <=> (cf_response[1].status_code = 400)
    /\ cf_config # <<>> => WellFormedMapping(cf_config[1].concept_mapping, FALSE)

\* C15, with the identifier test the validator applies: an identifier must
\* be a string that is not empty once trimmed.
C15_ValidationStrictTrimmed ==
    /\ Validated =>
          /\ (ValidationErrors # <<>>) <=> ~WellFormedMapping(ValidatedDocument, TRUE)
          /\ (ValidationErrors # <<>>) <=> (cf_response[1].status_code = 400)
    /\ cf_config # <<>> => WellFormedMapping(cf_config[1].concept_mapping, TRUE)

\* A document listing a number as identifier is answered 400 with an error,
\* and the mapping stored before stays.
C15_Witness ==
    /\ Validated
    /\ ValidatedDocument =
          JsonDict(<<[key |-> ReadingSubject,
                      value |-> JsonDict(<<[key |-> VocabularyArea,
                                            value |-> JsonList(<<JsonInt(1)>>)]>>)]>>)
    /\ Len(ValidationErrors) = 1
    /\ cf_response[1].status_code = 400
    /\ cf_config # <<>>
    /\ cf_config[1].concept_mapping # JsonDict(<<>>)

-----------------------------------------------------------------------------
(* AnalysisService on the concept mapping as /configure stores it: a JSON   *)
(* value.  An operation the value's type does not support raises.           *)

SubjectNames == <<ReadingSubject, QuantitativeSubject, AbstractSubject>>

\* self.concept_map.get(subject, {}) on a JSON object.
JsonSubjectMap(concepts, subject) ==
    LET hits == { i \in 1..Len(concepts.value) : concepts.value[i].key = subject }
    IN  IF hits = {} THEN JsonDict(<<>>)
        ELSE concepts.value[CHOOSE i \in hits : TRUE].value

\* The values "for q in questions" yields: the items of a list, the
\* characters of a string, the keys of an object.
Iterate(questions) ==
    IF questions.kind = "list" THEN questions.value
    ELSE IF questions.kind = "str"
    THEN [i \in 1..Len(questions.value) |-> JsonStr(<<questions.value[i]>>)]
    ELSE [i \in 1..Len(questions.value) |-> JsonStr(questions.value[i].key)]

\* The loop body raises for the area: len() of a number, or an id that is
\* no string (no isdigit on its items, or not hashable for the set update).
AreaRaises(questions) ==
    IF questions.kind = "int" THEN TRUE
    ELSE \E i \in 1..Len(Iterate(questions)) : Iterate(questions)[i].kind # "str"

\* analyze_subject_performance raises for the subject: no .get on the
\* mapping, no .items() on the subject's value, or an area that raises.
SubjectRaises(concepts, subject) ==
    IF concepts.kind # "dict" THEN TRUE
    ELSE IF JsonSubjectMap(concepts, subject).kind # "dict" THEN TRUE
    ELSE \E a \in 1..Len(JsonSubjectMap(concepts, subject).value) :
            AreaRaises(JsonSubjectMap(concepts, subject).value[a].value)

\* subject_map.items() of a subject that does not raise: area -> list of ids.
AreasOf(subject_map) ==
    [a \in 1..Len(subject_map.value) |->
        [ key   |-> subject_map.value[a].key,
          value |-> [i \in 1..Len(Iterate(subject_map.value[a].value)) |->
                        Iterate(subject_map.value[a].value)[i].value] ]]

\* analyze_subject_performance on the stored mapping, for a subject that
\* does not raise.
AnalyzeStored(concepts, subject, question_results, unmapped) ==
    analyze_subject_performance(
        <<[key |-> subject, value |-> AreasOf(JsonSubjectMap(concepts, subject))]>>,
        subject, question_results, unmapped)

\* The set list(all_labels - mapped_questions) is made of, on the stored mapping.
StoredUnmappedSet(concepts, subject, question_results) ==
    UnmappedSet(AreasOf(JsonSubjectMap(concepts, subject)), question_results)

\* [a.area for a in analysis.area_results if a.status == status]
RECURSIVE AreasWithStatus(_, _)
AreasWithStatus(area_results, status) ==
    IF area_results = <<>> THEN <<>>
    ELSE (IF Head(area_results).status = status THEN <<Head(area_results).area>> ELSE <<>>)
         \o AreasWithStatus(Tail(area_results), status)

\* A summary that files every area under done_well.
SubjectSummaryAllDone(analysis) ==
    [ done_well          |-> [a \in 1..Len(analysis.area_results) |->
                                 analysis.area_results[a].area],
      needs_improvement  |-> <<>>,
      unmapped_questions |-> analysis.unmapped_questions ]

\* summary[subj]
SubjectSummary(analysis) ==
    [ done_well          |-> AreasWithStatus(analysis.area_results, "Done well"),
      needs_improvement  |-> AreasWithStatus(analysis.area_results, "Needs improvement"),
      unmapped_questions |-> analysis.unmapped_questions ]

\* The subjects whose turn comes in the loop before one of them raises,
\* that one included.
SubjectsAnalysed(concepts) ==
    IF \E s \in 1..Len(SubjectNames) : SubjectRaises(concepts, SubjectNames[s])
    THEN 1..(CHOOSE s \in 1..Len(SubjectNames) :
                /\ SubjectRaises(concepts, SubjectNames[s])
                /\ \A t \in 1..(s - 1) : ~SubjectRaises(concepts, SubjectNames[t]))
    ELSE 1..Len(SubjectNames)

\* generate_full_analysis(reading, qr, ar) with results = <<reading, qr, ar>>
\* and unmapped[s] the list made of the s-th subject's unmapped set: the
\* calls of analyze_subject_performance it makes, whether one raised, and
\* the FullAnalysis returned when none did.
generate_full_analysis(concepts, results, unmapped) ==
    LET raised == \E s \in 1..Len(SubjectNames) : SubjectRaises(concepts, SubjectNames[s])
        analysed == IF raised THEN <<>>
                    ELSE [s \in 1..Len(SubjectNames) |->
                            AnalyzeStored(concepts, SubjectNames[s],
                                          QuestionResultsOf(results[s]), unmapped[s])]
    IN  [ calls         |-> [s \in SubjectsAnalysed(concepts) |->
                               [ subject          |-> SubjectNames[s],
                                 question_results |-> QuestionResultsOf(results[s]) ]],
          raised        |-> raised,
          subject_areas |-> [s \in 1..Len(analysed) |->
                               [key |-> SubjectNames[s], value |-> analysed[s].area_results]],
          summary       |-> [s \in 1..Len(analysed) |->
                               [key |-> SubjectNames[s], value |-> SubjectSummary(analysed[s])]] ]

-----------------------------------------------------------------------------
(* Inputs of the /single/process specification *)

\* Largest number of answers in an answer key of the session.
MaxStudentAnswers == 1

InferenceArea == <<"I", "n", "f", "e", "r", "e", "n", "c", "e">>

\* The Reading answer keys of a session.
StudentAnswerLists == SeqsUpTo({<<"A">>}, MaxStudentAnswers)

\* The QR and the AR answer keys of a session: none, or one answer.
StudentHalfLists == { <<>>, << <<"A">> >> }

\* What a concept mapping holds for a subject: two areas, or one.
StudentSubjectMaps ==
    { JsonDict(<<[key |-> VocabularyArea, value |-> JsonList(<<JsonStr(<<"1">>)>>)],
                 [key |-> InferenceArea,
                  value |-> JsonList(<<JsonStr(<<"q", "2">>), JsonStr(<<"x">>)>>)]>>),
      JsonDict(<<[key |-> VocabularyArea,
                  value |-> JsonList(<<JsonStr(<<"1">>), JsonStr(<<"2">>)>>)]>>) }

\* The members a document has for a subject: none, or the subject's entry.
SubjectMembers(subject) ==
    {<<>>} \cup { <<[key |-> subject, value |-> m]>> : m \in StudentSubjectMaps }

SampleArea == <<"S", "a", "m", "p", "l", "e">>

\* A document with a key starting with "_" that holds an area of its own,
\* beside the Reading subject.
SampleDocument ==
    JsonDict(<<[key |-> InstructionsKey,
                value |-> JsonDict(<<[key |-> SampleArea,
                                      value |-> JsonList(<<JsonStr(<<"1">>)>>)]>>)],
               [key |-> ReadingSubject,
                value |-> JsonDict(<<[key |-> VocabularyArea,
                                      value |-> JsonList(<<JsonStr(<<"1">>)>>)]>>)]>>)

\* The documents uploaded as concept mapping: any of the three subjects,
\* documents with a key starting with "_" whose value is a string or an
\* object, and documents validation rejects.
StudentDocuments ==
    { JsonDict(r \o q \o a) : r \in SubjectMembers(ReadingSubject),
                              q \in SubjectMembers(QuantitativeSubject),
                              a \in SubjectMembers(AbstractSubject) }
    \cup { JsonDict(<<[key |-> InstructionsKey, value |-> JsonStr(<<"x">>)]>>),
           SampleDocument,
           JsonList(<<>>),
           JsonDict(<<[key |-> ReadingSubject, value |-> JsonStr(<<"x">>)]>>),
           JsonDict(<<[key |-> ReadingSubject,
                       value |-> JsonDict(<<[key |-> VocabularyArea,
                                             value |-> JsonList(<<JsonInt(1)>>)]>>)]>>) }

\* The configurations /configure stores: at least one answer key, and a
\* concept mapping that validate_concept_mapping finds no error in.
StudentConfigs ==
    { c \in [ reading_answers : StudentAnswerLists,
              qr_answers      : StudentHalfLists,
              ar_answers      : StudentHalfLists,
              concept_mapping : { d \in StudentDocuments :
                                    validate_concept_mapping(d) = <<>> } ] :
        is_configured(c) }

\* A sheet part of the form: no file, a file the OMR pipeline raises on,
\* or a file read with one bubble marked for each of up to n questions.
StudentSheets(n) ==
    { [present |-> FALSE, readable |-> TRUE, marks |-> <<>>],
      [present |-> TRUE, readable |-> FALSE, marks |-> <<>>] }
    \cup { [present |-> TRUE, readable |-> TRUE, marks |-> m] :
             m \in SeqsUpTo({<<"A">>, <<"B">>}, n) }

\* The form of POST /single/process.
StudentForms ==
    [ writing_score   : {0, 35},
      reading_sheet   : StudentSheets(MaxStudentAnswers),
      qrar_sheet      : StudentSheets(2),
      generate_report : BOOLEAN ]

-----------------------------------------------------------------------------
(* /single/process specification: process_single_student answers one form  *)
(* at a time for a configured session; the same form may be sent again.     *)

\* What a request leaves: the form, the status code of the response, the
\* results of the sheets marked, and what generate_full_analysis did
\* (<<>> for what was not computed).
Bundle(form, status_code, reading_result, qrar_result, analysis) ==
    [ form           |-> form,
      status_code    |-> status_code,
      reading_result |-> reading_result,
      qrar_result    |-> qrar_result,
      analysis       |-> analysis ]

\* reading_key, or qrar_key over qr_answers + ar_answers: questions "1", "2", ..
NumberedKey(answers) == PrefixedKey(<<>>, answers)

\* The sheet has one marked bubble per question of its key.
SheetFits(sheet, answers) ==
    sheet.present /\ sheet.readable => Len(sheet.marks) = Len(answers)

\* process_single_subject for a sheet part that holds a readable file.
MarkedSheet(sheet, answers, subject_name) ==
    IF sheet.present /\ sheet.readable
    THEN <<process_single_subject(SheetResponse(sheet.marks), NumberedKey(answers),
                                  subject_name)>>
    ELSE <<>>

\* The condition under which the report and the analysis are generated.
GeneratesReport(form) ==
    /\ form.generate_report
    /\ form.reading_sheet.present /\ form.reading_sheet.readable
    /\ form.qrar_sheet.present /\ form.qrar_sheet.readable

\* The labels the questions of a session's sheets have.
StudentLabels ==
    { IntToStr(i) : i \in 1..MaxStudentAnswers }
    \cup UNION { { NumberedKey(q \o a)[i].key : i \in 1..Len(q \o a) } :
                  q \in StudentHalfLists, a \in StudentHalfLists }

\* What the hash seed of an interpreter process decides here: for each set
\* of labels, the order list() gives its elements in.  The seed is drawn
\* when the process starts and the order of a set is the same all through
\* the process.
HashSeeds ==
    { h \in [SUBSET StudentLabels -> UNION { ListsOf(S) : S \in SUBSET StudentLabels }] :
        \A S \in SUBSET StudentLabels : h[S] \in ListsOf(S) }

\* list(all_labels - mapped_questions) for a subject, in this process.
UnmappedList(seed, concepts, subject, result) ==
    IF result = <<>> \/ SubjectRaises(concepts, subject) THEN <<>>
    ELSE seed[StoredUnmappedSet(concepts, subject, QuestionResultsOf(result[1]))]

\* The three unmapped lists of a request, in this process.
UnmappedLists(seed, config, form) ==
    IF ~GeneratesReport(form) THEN << <<>>, <<>>, <<>> >>
    ELSE << UnmappedList(seed, config.concept_mapping, ReadingSubject,
                         MarkedSheet(form.reading_sheet, config.reading_answers,
                                     "Reading")),
            UnmappedList(seed, config.concept_mapping, QuantitativeSubject,
                         MarkedSheet(form.qrar_sheet,
                                     config.qr_answers \o config.ar_answers, "QR/AR")),
            <<>> >>

\* The artifact generation: the analysis of reading_result, qrar_result and
\* empty_ar when a report is asked for and both sheets were marked.  The
\* request then ends in an error either way: generate_full_analysis raised,
\* or generate_student_report, which takes the analysis alone, is called
\* with the student's name as well.
FinishSingle(config, form, reading_result, qrar_result, analysis) ==
    IF GeneratesReport(form)
    THEN Bundle(form, 500, reading_result, qrar_result, <<analysis>>)
    ELSE Bundle(form, 200, reading_result, qrar_result, <<>>)

\* process_single_student once require_configuration has passed.
process_single_student(config, form, unmapped) ==
    IF ~form.reading_sheet.present /\ ~form.qrar_sheet.present
    THEN Bundle(form, 400, <<>>, <<>>, <<>>)
    ELSE IF form.reading_sheet.present /\ ~form.reading_sheet.readable
    THEN Bundle(form, 500, <<>>, <<>>, <<>>)
    ELSE IF form.qrar_sheet.present /\ ~form.qrar_sheet.readable
    THEN Bundle(form, 500,
                MarkedSheet(form.reading_sheet, config.reading_answers, "Reading"),
                <<>>, <<>>)
    ELSE FinishSingle(config, form,
                      MarkedSheet(form.reading_sheet, config.reading_answers, "Reading"),
                      MarkedSheet(form.qrar_sheet, config.qr_answers \o config.ar_answers,
                                  "QR/AR"),
                      IF GeneratesReport(form)
                      THEN generate_full_analysis(
                               config.concept_mapping,
                               << MarkedSheet(form.reading_sheet, config.reading_answers,
                                              "Reading")[1],
                                  MarkedSheet(form.qrar_sheet,
                                              config.qr_answers \o config.ar_answers,
                                              "QR/AR")[1],
                                  empty_ar >>,
                               unmapped)
                      ELSE <<>>)

InitStudent ==
    /\ sg_config \in { <<c>> : c \in StudentConfigs }
    /\ sg_bundle = <<>>
    /\ sg_hash_seed \in HashSeeds
    /\ IdleLookup
    /\ IdleScore
    /\ IdleBatch
    /\ IdleAnalysis
    /\ IdleStatus
    /\ IdleConfig
    /\ IdleAuth
    /\ IdleRoutes
    /\ IdleNormalize
    /\ IdleStore
    /\ IdleReport
    /\ IdleThreads

\* POST /single/process: a new form once the previous response is sent, or
\* the form of the request just answered, sent again.
ProcessSingleStudent(form) ==
    /\ PassesRequireConfiguration(sg_config)
    /\ IF sg_bundle = <<>> THEN TRUE ELSE sg_bundle[1].form = form
    /\ SheetFits(form.reading_sheet, sg_config[1].reading_answers)
    /\ SheetFits(form.qrar_sheet, sg_config[1].qr_answers \o sg_config[1].ar_answers)
    /\ sg_bundle' = <<process_single_student(sg_config[1], form,
                                              UnmappedLists(sg_hash_seed, sg_config[1], form))>>
    /\ UNCHANGED <<sg_config, sg_hash_seed>>
    /\ UNCHANGED <<lookupVars, scoreVars, batchVars, analysisVars, statusVars, configVars, authVars, routeVars, normalizeVars, storeVars, reportVars, threadVars>>

\* The response has been sent.
StudentDone ==
    /\ sg_bundle # <<>>
    /\ sg_bundle' = <<>>
    /\ UNCHANGED <<sg_config, sg_hash_seed>>
    /\ UNCHANGED <<lookupVars, scoreVars, batchVars, analysisVars, statusVars, configVars, authVars, routeVars, normalizeVars, storeVars, reportVars, threadVars>>

\* The server process is started anew and the session is configured again
\* from the same files: the interpreter draws its hash seed anew, the
\* configuration stored is the one stored before, and the client still
\* holds the response of its last request.
RestartServer ==
    /\ sg_hash_seed' \in HashSeeds \ {sg_hash_seed}
    /\ UNCHANGED <<sg_config, sg_bundle>>
    /\ UNCHANGED <<lookupVars, scoreVars, batchVars, analysisVars, statusVars, configVars, authVars, routeVars, normalizeVars, storeVars, reportVars, threadVars>>

NextStudent ==
    \/ \E form \in (IF sg_bundle = <<>> THEN StudentForms ELSE {sg_bundle[1].form}) :
          ProcessSingleStudent(form)
    \/ StudentDone
    \/ RestartServer

SpecStudent == InitStudent /\ [][NextStudent]_vars

-----------------------------------------------------------------------------
(* Claims on the /single/process specification *)

\* A request has been answered and generate_full_analysis was called for it.
Compiled == sg_bundle # <<>> /\ sg_bundle[1].analysis # <<>>

\* What generate_full_analysis did for the request answered.
Full == sg_bundle[1].analysis[1]

\* The elements of a list.
ListItems(list) == { list[i] : i \in 1..Len(list) }

\* The areas of the s-th subject of a FullAnalysis filed under a status.
AreasFiled(full, s, status) ==
    { full.subject_areas[s].value[a].area :
        a \in { b \in 1..Len(full.subject_areas[s].value) :
                  full.subject_areas[s].value[b].status = status } }

\* C12: compiling a student's analysis runs the aggregation once per subject
\* in the order Reading, Quantitative Reasoning, Abstract Reasoning, keeps
\* the area results per subject, and the summary of each subject files every
\* area of the subject in exactly one of done_well and needs_improvement,
\* by its status, next to the subject's unmapped questions.
C12_CompileOrderAndSummary ==
    (Compiled /\ ~Full.raised) =>
        /\ DOMAIN Full.calls = 1..Len(SubjectNames)
        /\ \A s \in 1..Len(SubjectNames) :
              /\ Full.calls[s].subject = SubjectNames[s]
              /\ Full.subject_areas[s].key = SubjectNames[s]
              /\ Full.summary[s].key = SubjectNames[s]
              /\ Len(Full.subject_areas[s].value)
                    = Len(JsonSubjectMap(sg_config[1].concept_mapping, SubjectNames[s]).value)
              /\ ListItems(Full.summary[s].value.done_well)
                    = AreasFiled(Full, s, "Done well")
              /\ ListItems(Full.summary[s].value.needs_improvement)
                    = AreasFiled(Full, s, "Needs improvement")
              /\ ListItems(Full.summary[s].value.done_well)
                    \cap ListItems(Full.summary[s].value.needs_improvement) = {}
              /\ Len(Full.summary[s].value.done_well)
                    + Len(Full.summary[s].value.needs_improvement)
                    = Len(Full.subject_areas[s].value)
              /\ \A a \in 1..Len(Full.subject_areas[s].value) :
                    Full.subject_areas[s].value[a].status
                        \in {"Done well", "Needs improvement"}
              /\ ListItems(Full.summary[s].value.unmapped_questions)
                    = StoredUnmappedSet(sg_config[1].concept_mapping, SubjectNames[s],
                                        Full.calls[s].question_results)
              /\ Len(Full.summary[s].value.unmapped_questions)
                    = Cardinality(ListItems(Full.summary[s].value.unmapped_questions))

\* A compiled analysis whose Reading summary has Vocabulary under done_well
\* and Inference under needs_improvement, and whose Quantitative Reasoning
\* summary carries an unmapped question.
C12_Witness ==
    /\ Compiled
    /\ ~Full.raised
    /\ Full.summary[1].value.done_well = <<VocabularyArea>>
    /\ Full.summary[1].value.needs_improvement = <<InferenceArea>>
    /\ Full.summary[2].value.unmapped_questions # <<>>

\* The outcomes of questions from + 1 .. from + count of a SubjectResult, as
\* the aggregation takes them.
OutcomesOf(result, from, count) ==
    [i \in 1..count |-> QuestionResultsOf(result)[from + i]]

\* C13: when a combined QR/AR sheet is scored, its results are split before
\* the concept aggregation: Quantitative Reasoning is aggregated over the
\* outcomes of the QR questions only and Abstract Reasoning over the
\* outcomes of the AR questions only.
C13_SplitBeforeAggregation ==
    (Compiled /\ ~Full.raised) =>
        /\ Full.calls[2].question_results
              = OutcomesOf(sg_bundle[1].qrar_result[1], 0, Len(sg_config[1].qr_answers))
        /\ Full.calls[3].question_results
              = OutcomesOf(sg_bundle[1].qrar_result[1], Len(sg_config[1].qr_answers),
                           Len(sg_config[1].ar_answers))

\* C14: an empty answer key is a failure surfaced before scoring begins: no
\* sheet is scored against an empty answer key for its subject.
C14_NoSheetScoredOnEmptyKey ==
    sg_bundle # <<>> =>
        /\ sg_bundle[1].reading_result # <<>> => sg_config[1].reading_answers # <<>>
        /\ sg_bundle[1].qrar_result # <<>>
              => sg_config[1].qr_answers \o sg_config[1].ar_answers # <<>>

\* The key the report reads the writing score under in the summary.
WritingScoreKey ==
    <<"w", "r", "i", "t", "i", "n", "g", "_", "s", "c", "o", "r", "e">>

\* C16: the writing score the caller gives is carried unchanged by the
\* FullAnalysis returned, as a numeric field of its own or of its summary.
C16_WritingScoreCarried ==
    (Compiled /\ ~Full.raised) =>
        \/ /\ "writing_score" \in DOMAIN Full
           /\ Full.writing_score = sg_bundle[1].form.writing_score
        \/ \E i \in 1..Len(Full.summary) :
              /\ Full.summary[i].key = WritingScoreKey
              /\ Full.summary[i].value = sg_bundle[1].form.writing_score

\* The subject has an entry in the concept mapping of the session.
SubjectMapped(concepts, subject) ==
    \E i \in 1..Len(concepts.value) : concepts.value[i].key = subject

\* The identifiers of the a-th area of a subject of the stored mapping.
StoredIds(concepts, subject, a) ==
    AreasOf(JsonSubjectMap(concepts, subject))[a].value

\* The positions of the identifiers whose digits are the digits of the
\* label of a scored question.
MatchingIds(ids, question_results) ==
    { i \in 1..Len(ids) :
        \E k \in 1..Len(question_results) :
            normalize_label(question_results[k].label) = normalize_label(ids[i]) }

\* C17: a lookup miss never aborts the computation.  For a validated concept
\* mapping the aggregation and the compilation complete for all three
\* subjects; an identifier that matches no scored question counts in its
\* area's total and not in correct; a subject absent from the mapping has
\* no areas and all of its scored labels are reported unmapped.
C17_LookupMissNeverAborts ==
    Compiled =>
        /\ ~Full.raised
        /\ DOMAIN Full.calls = 1..Len(SubjectNames)
        /\ Len(Full.subject_areas) = Len(SubjectNames)
        /\ Len(Full.summary) = Len(SubjectNames)
        /\ \A s \in 1..Len(SubjectNames) :
              /\ \A a \in 1..Len(Full.subject_areas[s].value) :
                    /\ Full.subject_areas[s].value[a].total
                          = Len(StoredIds(sg_config[1].concept_mapping, SubjectNames[s], a))
                    /\ Full.subject_areas[s].value[a].correct
                          <= Cardinality(MatchingIds(
                                StoredIds(sg_config[1].concept_mapping, SubjectNames[s], a),
                                Full.calls[s].question_results))
              /\ ~SubjectMapped(sg_config[1].concept_mapping, SubjectNames[s]) =>
                    /\ Full.subject_areas[s].value = <<>>
                    /\ ListItems(Full.summary[s].value.unmapped_questions)
                          = AllLabels(Full.calls[s].question_results)

\* A compiled analysis where Reading's Inference area lists two identifiers
\* that match no scored question (total 2, correct 0) beside a Vocabulary
\* area answered correctly, and where Quantitative Reasoning, absent from
\* the mapping, has scored questions.
C17_Witness ==
    /\ Compiled
    /\ ~Full.raised
    /\ Len(Full.subject_areas[1].value) = 2
    /\ Full.subject_areas[1].value[1].correct = 1
    /\ Full.subject_areas[1].value[2].total = 2
    /\ Full.subject_areas[1].value[2].correct = 0
    /\ MatchingIds(StoredIds(sg_config[1].concept_mapping, ReadingSubject, 2),
                   Full.calls[1].question_results) = {}
    /\ ~SubjectMapped(sg_config[1].concept_mapping, QuantitativeSubject)
    /\ Full.summary[2].value.unmapped_questions # <<>>

\* C18: the pipeline is a deterministic function of its inputs.  When the
\* same form is processed again for the same session, which scores the same
\* sheets to the same results and compiles them with the same concept
\* mapping, the analysis compiled is equal to the one compiled before, the
\* order of the entries of every list included.
C18_SameInputsSameAnalysis ==
    [][ ( /\ sg_bundle # <<>>
          /\ sg_bundle' # <<>>
          /\ sg_bundle'[1].form = sg_bundle[1].form
          /\ sg_config' = sg_config )
        => sg_bundle'[1].analysis = sg_bundle[1].analysis ]_vars

-----------------------------------------------------------------------------
(* Sessions: create_session, validate_session, invalidate_session and      *)
(* cleanup_expired_sessions on the _sessions dict.  A dict is the set of    *)
(* its items, [token, expiry]; times are whole hours.                       *)

\* The SESSION_DURATION_HOURS setting: any whole number of hours from 1.
SESSION_DURATION_HOURS == 1

\* The i-th token secrets.token_urlsafe returns.
Token(i) == <<"t">> \o IntToStr(i)

\* The empty string; a request without the cookie gives None, which
\* "not token" treats the same way.
EmptyToken == <<>>

\* A token no create_session has returned.
InvalidToken ==
    <<"i", "n", "v", "a", "l", "i", "d", "-", "t", "o", "k", "e", "n">>

\* _sessions.get(token): <<>> for None.
SessionsGet(sessions, token) ==
    IF \E s \in sessions : s.token = token
    THEN <<(CHOOSE s \in sessions : s.token = token).expiry>>
    ELSE <<>>

\* _sessions.pop(token, None)
SessionsPop(sessions, token) == { s \in sessions : s.token # token }

\* A test that takes the hour of the expiry itself as expired.
ExpiredAtExpiry(expiry, now) == expiry <= now

\* expiry < now
Expired(expiry, now) == expiry < now

\* create_session with token the value drawn: the dict after the call.
create_session(sessions, token, now) ==
    SessionsPop(sessions, token)
        \cup { [token |-> token, expiry |-> now + SESSION_DURATION_HOURS] }

\* validate_session: the value returned and the dict after the call.
validate_session(sessions, token, now) ==
    IF token = EmptyToken
    THEN [value |-> FALSE, sessions |-> sessions]
    ELSE IF SessionsGet(sessions, token) = <<>>
    THEN [value |-> FALSE, sessions |-> sessions]
    ELSE IF Expired(SessionsGet(sessions, token)[1], now)
    THEN [value |-> FALSE, sessions |-> SessionsPop(sessions, token)]
    ELSE [value |-> TRUE, sessions |-> sessions]

\* invalidate_session: the dict after the call.
invalidate_session(sessions, token) ==
    IF token = EmptyToken THEN sessions ELSE SessionsPop(sessions, token)

\* cleanup_expired_sessions: the dict after the call.
cleanup_expired_sessions(sessions, now) ==
    { s \in sessions : ~Expired(s.expiry, now) }

-----------------------------------------------------------------------------
(* Session specification: the four functions called in any order while     *)
(* time passes.                                                             *)

\* Largest number of sessions created.
MaxSessions == 2

\* Latest hour of the clock.
MaxClock == 3

\* The tokens create_session can return.
SessionTokens == { Token(i) : i \in 1..MaxSessions }

\* The tokens a caller can pass.
CallerTokens == SessionTokens \cup {EmptyToken, InvalidToken}

\* What a call leaves: the function called, the token passed or returned,
\* and the value returned.
SessionCall(op, token, value) == [op |-> op, token |-> token, value |-> value]

InitSession ==
    /\ au_sessions = {}
    /\ au_now = 0
    /\ au_issued = {}
    /\ au_invalidated = {}
    /\ au_result = <<>>
    /\ IdleLookup
    /\ IdleScore
    /\ IdleBatch
    /\ IdleAnalysis
    /\ IdleStatus
    /\ IdleConfig
    /\ IdleStudent
    /\ IdleRoutes
    /\ IdleNormalize
    /\ IdleStore
    /\ IdleReport
    /\ IdleThreads

\* create_session(): the token drawn is one not drawn before.
CreateSession(token) ==
    /\ au_result = <<>>
    /\ \A s \in au_issued : s.token # token
    /\ au_sessions' = create_session(au_sessions, token, au_now)
    /\ au_issued' = au_issued
                        \cup { [token |-> token, expiry |-> au_now + SESSION_DURATION_HOURS] }
    /\ au_invalidated' = au_invalidated \ {token}
    /\ au_result' = <<SessionCall("create_session", token, TRUE)>>
    /\ UNCHANGED au_now
    /\ UNCHANGED <<lookupVars, scoreVars, batchVars, analysisVars, statusVars, configVars, studentVars, routeVars, normalizeVars, storeVars, reportVars, threadVars>>

\* validate_session(token)
ValidateSession(token) ==
    /\ au_result = <<>>
    /\ au_sessions' = validate_session(au_sessions, token, au_now).sessions
    /\ au_result' = <<SessionCall("validate_session", token,
                                  validate_session(au_sessions, token, au_now).value)>>
    /\ UNCHANGED <<au_now, au_issued, au_invalidated>>
    /\ UNCHANGED <<lookupVars, scoreVars, batchVars, analysisVars, statusVars, configVars, studentVars, routeVars, normalizeVars, storeVars, reportVars, threadVars>>

\* invalidate_session(token)
InvalidateSession(token) ==
    /\ au_result = <<>>
    /\ au_sessions' = invalidate_session(au_sessions, token)
    /\ au_invalidated' = au_invalidated \cup {token}
    /\ au_result' = <<SessionCall("invalidate_session", token, TRUE)>>
    /\ UNCHANGED <<au_now, au_issued>>
    /\ UNCHANGED <<lookupVars, scoreVars, batchVars, analysisVars, statusVars, configVars, studentVars, routeVars, normalizeVars, storeVars, reportVars, threadVars>>

\* cleanup_expired_sessions()
CleanupExpiredSessions ==
    /\ au_result = <<>>
    /\ au_sessions' = cleanup_expired_sessions(au_sessions, au_now)
    /\ au_result' = <<SessionCall("cleanup_expired_sessions", EmptyToken, TRUE)>>
    /\ UNCHANGED <<au_now, au_issued, au_invalidated>>
    /\ UNCHANGED <<lookupVars, scoreVars, batchVars, analysisVars, statusVars, configVars, studentVars, routeVars, normalizeVars, storeVars, reportVars, threadVars>>

\* The call has returned.
SessionReturn ==
    /\ au_result # <<>>
    /\ au_result' = <<>>
    /\ UNCHANGED <<au_sessions, au_now, au_issued, au_invalidated>>
    /\ UNCHANGED <<lookupVars, scoreVars, batchVars, analysisVars, statusVars, configVars, studentVars, routeVars, normalizeVars, storeVars, reportVars, threadVars>>

\* An hour passes between two calls.
SessionTick ==
    /\ au_result = <<>>
    /\ au_now < MaxClock
    /\ au_now' = au_now + 1
    /\ UNCHANGED <<au_sessions, au_issued, au_invalidated, au_result>>
    /\ UNCHANGED <<lookupVars, scoreVars, batchVars, analysisVars, statusVars, configVars, studentVars, routeVars, normalizeVars, storeVars, reportVars, threadVars>>

NextSession ==
    \/ \E token \in SessionTokens : CreateSession(token)
    \/ \E token \in CallerTokens : ValidateSession(token)
    \/ \E token \in CallerTokens : InvalidateSession(token)
    \/ CleanupExpiredSessions
    \/ SessionReturn
    \/ SessionTick

SpecSession == InitSession /\ [][NextSession]_vars

\* validate_session has just returned.
Validating == au_result # <<>> /\ au_result[1].op = "validate_session"

\* The token was returned by create_session and its expiry has not passed.
IssuedUnexpired(token) ==
    \E s \in au_issued : s.token = token /\ s.expiry >= au_now

\* C19: validate_session(token) returns true exactly when the token was
\* returned by create_session, has not since been passed to
\* invalidate_session, and its expiry time has not passed; so it returns
\* false ever after invalidate_session(token), and for an empty or a
\* never-issued token.
C19_ValidateIffLive ==
    Validating =>
        /\ au_result[1].value
              <=> /\ IssuedUnexpired(au_result[1].token)
                  /\ au_result[1].token \notin au_invalidated
        /\ au_result[1].token \in {EmptyToken, InvalidToken} => ~au_result[1].value

\* validate_session returns false for a token that was issued, has not
\* expired and was invalidated, while another token's session is still
\* stored.
C19_Witness ==
    /\ Validating
    /\ ~au_result[1].value
    /\ IssuedUnexpired(au_result[1].token)
    /\ au_result[1].token \in au_invalidated
    /\ \E s \in au_sessions : s.token # au_result[1].token

-----------------------------------------------------------------------------
(* Routes: the dashboard, configuration, marking and batch routes behind   *)
(* get_current_session, get_marking_config and require_configuration, and  *)
(* the handler of HTTPException.                                            *)

\* A route: its handler, the dependency it declares ("none", "session" for
\* get_current_session, "configuration" for require_configuration, which
\* depends on get_current_session), and what its body does.
Route(name, requires, effect) ==
    [name |-> name, requires |-> requires, effect |-> effect]

\* The routes of the dashboard, marking and batch routers.
Routes ==
    { Route("dashboard_home", "session", "rendered"),
      Route("dashboard_alias", "none", "redirected"),
      Route("configure_marking", "session", "configured"),
      Route("single_marking_page", "configuration", "rendered"),
      Route("process_single_student", "configuration", "marked"),
      Route("batch_page", "configuration", "rendered"),
      Route("manifest_builder", "none", "rendered"),
      Route("process_batch", "configuration", "marked") }

\* request.cookies.get(SESSION_COOKIE_NAME): <<>> for None.
CookieToken(cookie) == IF cookie = <<>> THEN EmptyToken ELSE cookie[1]

\* config_store.get(session_token): <<>> for None.
ConfigStoreGet(configs, token) ==
    IF \E c \in configs : c.token = token
    THEN <<(CHOOSE c \in configs : c.token = token).config>>
    ELSE <<>>

\* config_store.set(session_token, config)
ConfigStoreSet(configs, token, config) ==
    { c \in configs : c.token # token } \cup { [token |-> token, config |-> config] }

\* What a request leaves: the request, whether its token validated when it
\* arrived, the status code of the response and what the route did.
RouteResponse(request, valid, status_code, effect) ==
    [ request     |-> request,
      valid       |-> valid,
      status_code |-> status_code,
      effect      |-> effect ]

\* http_exception_handler for the 401 of get_current_session: a redirect to
\* /login when the Accept header holds text/html, the 401 otherwise.
UnauthorizedStatus(accept_html) == IF accept_html THEN 303 ELSE 401

\* The body of the route's handler: the uploads pass the handler's checks
\* or the handler answers 400; the alias answers with a redirect.
HandlerStatus(request) ==
    IF ~request.accepted THEN 400
    ELSE IF request.route.effect = "redirected" THEN 303
    ELSE 200

\* The response to a request: the dependencies, then the handler's body.
Respond(request, sessions, now, configs) ==
    IF /\ request.route.requires # "none"
       /\ ~validate_session(sessions, CookieToken(request.cookie), now).value
    THEN RouteResponse(request, FALSE, UnauthorizedStatus(request.accept_html), "none")
    ELSE IF /\ request.route.requires = "configuration"
            /\ ConfigStoreGet(configs, CookieToken(request.cookie)) = <<>>
    THEN RouteResponse(request, TRUE, 400, "none")
    ELSE RouteResponse(request,
                       validate_session(sessions, CookieToken(request.cookie), now).value,
                       HandlerStatus(request),
                       IF request.accepted THEN request.route.effect ELSE "none")

-----------------------------------------------------------------------------
(* Route specification: logins, logouts and requests to the routes, one    *)
(* at a time, while time passes.                                            *)

\* Largest number of logins.
MaxRouteSessions == 1

\* The tokens the logins receive.
RouteTokens == { Token(i) : i \in 1..MaxRouteSessions }

\* The session cookie of a request: none, a token of a login, or a token
\* no login received.
Cookies == {<<>>} \cup { <<t>> : t \in RouteTokens \cup {InvalidToken} }

\* The configurations uploaded.
RouteUploads == {"first keys", "second keys"}

\* The requests: the handler's own checks can fail for the routes that
\* take uploads.
RouteRequests ==
    { r \in [ route       : Routes,
              cookie      : Cookies,
              accept_html : BOOLEAN,
              accepted    : BOOLEAN,
              upload      : RouteUploads ] :
        /\ r.route.effect \notin {"configured", "marked"} => r.accepted
        /\ r.route.effect # "configured" => r.upload = "first keys" }

InitRoutes ==
    /\ rt_sessions = {}
    /\ rt_now = 0
    /\ rt_issued = {}
    /\ rt_configs = {}
    /\ rt_response = <<>>
    /\ IdleLookup
    /\ IdleScore
    /\ IdleBatch
    /\ IdleAnalysis
    /\ IdleStatus
    /\ IdleConfig
    /\ IdleStudent
    /\ IdleAuth
    /\ IdleNormalize
    /\ IdleStore
    /\ IdleReport
    /\ IdleThreads

\* POST /login with the staff password: cleanup_expired_sessions, then
\* create_session; the token is one not drawn before.
LoginSubmit(token) ==
    /\ rt_response = <<>>
    /\ token \notin rt_issued
    /\ rt_issued' = rt_issued \cup {token}
    /\ rt_sessions' = create_session(cleanup_expired_sessions(rt_sessions, rt_now),
                                     token, rt_now)
    /\ UNCHANGED <<rt_now, rt_configs, rt_response>>
    /\ UNCHANGED <<lookupVars, scoreVars, batchVars, analysisVars, statusVars, configVars, studentVars, authVars, normalizeVars, storeVars, reportVars, threadVars>>

\* GET /logout
Logout(cookie) ==
    /\ rt_response = <<>>
    /\ rt_sessions' = invalidate_session(rt_sessions, CookieToken(cookie))
    /\ UNCHANGED <<rt_now, rt_issued, rt_configs, rt_response>>
    /\ UNCHANGED <<lookupVars, scoreVars, batchVars, analysisVars, statusVars, configVars, studentVars, authVars, normalizeVars, storeVars, reportVars, threadVars>>

\* A request to one of the routes.
RouteRequest(request) ==
    /\ rt_response = <<>>
    /\ rt_response' = <<Respond(request, rt_sessions, rt_now, rt_configs)>>
    /\ rt_sessions' = IF request.route.requires = "none" THEN rt_sessions
                      ELSE validate_session(rt_sessions, CookieToken(request.cookie),
                                            rt_now).sessions
    /\ rt_configs' = IF Respond(request, rt_sessions, rt_now, rt_configs).effect = "configured"
                     THEN ConfigStoreSet(rt_configs, CookieToken(request.cookie),
                                         request.upload)
                     ELSE rt_configs
    /\ UNCHANGED <<rt_now, rt_issued>>
    /\ UNCHANGED <<lookupVars, scoreVars, batchVars, analysisVars, statusVars, configVars, studentVars, authVars, normalizeVars, storeVars, reportVars, threadVars>>

\* The response has been sent.
RouteDone ==
    /\ rt_response # <<>>
    /\ rt_response' = <<>>
    /\ UNCHANGED <<rt_sessions, rt_now, rt_issued, rt_configs>>
    /\ UNCHANGED <<lookupVars, scoreVars, batchVars, analysisVars, statusVars, configVars, studentVars, authVars, normalizeVars, storeVars, reportVars, threadVars>>

\* An hour passes between two requests.
RouteTick ==
    /\ rt_response = <<>>
    /\ rt_now < MaxClock
    /\ rt_now' = rt_now + 1
    /\ UNCHANGED <<rt_sessions, rt_issued, rt_configs, rt_response>>
    /\ UNCHANGED <<lookupVars, scoreVars, batchVars, analysisVars, statusVars, configVars, studentVars, authVars, normalizeVars, storeVars, reportVars, threadVars>>

NextRoutes ==
    \/ \E token \in RouteTokens : LoginSubmit(token)
    \/ \E cookie \in Cookies : Logout(cookie)
    \/ \E request \in RouteRequests : RouteRequest(request)
    \/ RouteDone
    \/ RouteTick

SpecRoutes == InitRoutes /\ [][NextRoutes]_vars

\* C20: a request to a dashboard, configuration, marking or batch route
\* that carries no valid session token is answered with status 401, and the
\* route renders no page, changes no configuration and marks nothing for it.
C20_NoSessionNoService ==
    (rt_response # <<>> /\ ~rt_response[1].valid) =>
        /\ rt_response[1].status_code = 401
        /\ rt_response[1].effect = "none"

-----------------------------------------------------------------------------
(* Normalization specification: _normalize_marked_value applied to the raw *)
(* value detected for a field.                                              *)

\* Largest number of entries in a raw value.
MaxMarks == 3

\* The strings a raw value is made of.
RawMarks == { <<"A">>, <<"B">>, <<"b">>, <<" ", "A">>, <<"C", " ">> }

\* The raw values of a field: None, a string, a list of strings.
RawValues ==
    {NoneValue} \cup { StrValue(m) : m \in RawMarks }
                \cup { ListValue(l) : l \in SeqsUpTo(RawMarks, MaxMarks) }

InitNormalize ==
    /\ nm_value \in RawValues
    /\ nm_result = <<>>
    /\ IdleLookup
    /\ IdleScore
    /\ IdleBatch
    /\ IdleAnalysis
    /\ IdleStatus
    /\ IdleConfig
    /\ IdleStudent
    /\ IdleAuth
    /\ IdleRoutes
    /\ IdleStore
    /\ IdleReport
    /\ IdleThreads

\* _normalize_marked_value(value)
NormalizeMarkedValue ==
    /\ nm_result = <<>>
    /\ nm_result' = <<normalize_marked_value(nm_value)>>
    /\ UNCHANGED nm_value
    /\ UNCHANGED <<lookupVars, scoreVars, batchVars, analysisVars, statusVars, configVars, studentVars, authVars, routeVars, storeVars, reportVars, threadVars>>

\* The value detected for the next field.
NextField(value) ==
    /\ nm_result # <<>>
    /\ nm_value' = value
    /\ nm_result' = <<>>
    /\ UNCHANGED <<lookupVars, scoreVars, batchVars, analysisVars, statusVars, configVars, studentVars, authVars, routeVars, storeVars, reportVars, threadVars>>

NextNormalize ==
    \/ NormalizeMarkedValue
    \/ \E value \in RawValues : NextField(value)

SpecNormalize == InitNormalize /\ [][NextNormalize]_vars

\* The trimmed, upper-cased forms of the entries of a raw value.
NormalForms(items) == [i \in 1..Len(items) |-> StripUpper(items[i])]

\* C23: for a raw value with more than one entry the result is the
\* entries' trimmed, upper-cased forms in ascending sorted order joined by
\* commas; an absent or empty value gives the empty string and a single
\* value its trimmed, upper-cased form.
C23_NormalizeSortedForms ==
    nm_result # <<>> =>
        IF nm_value.kind = "none" THEN nm_result[1] = EmptyStr
        ELSE IF Len(nm_value.items) = 0 THEN nm_result[1] = EmptyStr
        ELSE IF Len(nm_value.items) = 1 THEN nm_result[1] = StripUpper(nm_value.items[1])
        ELSE nm_result[1] = Join(<<",">>, Sorted(NormalForms(nm_value.items)))

-----------------------------------------------------------------------------
(* get_configuration_status and the store behind /configure *)

\* config.is_configured
is_configured_config(config) ==
    config.reading_answers # <<>> \/ config.qr_answers # <<>> \/ config.ar_answers # <<>>

\* The keys of config.concept_mapping that do not start with "_", in order.
SubjectsMapped(concepts) ==
    IF concepts.kind # "dict" THEN <<>>
    ELSE SelectSeq([i \in 1..Len(concepts.value) |-> concepts.value[i].key],
                   LAMBDA subject : ~StartsWithUnderscore(subject))

\* The summary returned for a session without a usable configuration.
NotConfiguredStatus ==
    [ configured        |-> FALSE,
      reading_questions |-> 0,
      qr_questions      |-> 0,
      ar_questions      |-> 0,
      subjects_mapped   |-> <<>> ]

\* get_configuration_status(session_token)
get_configuration_status(configs, session_token) ==
    IF ConfigStoreGet(configs, session_token) = <<>> THEN NotConfiguredStatus
    ELSE IF ~is_configured_config(ConfigStoreGet(configs, session_token)[1])
    THEN NotConfiguredStatus
    ELSE LET config == ConfigStoreGet(configs, session_token)[1]
         IN  [ configured        |-> TRUE,
               reading_questions |-> Len(config.reading_answers),
               qr_questions      |-> Len(config.qr_answers),
               ar_questions      |-> Len(config.ar_answers),
               subjects_mapped   |-> SubjectsMapped(config.concept_mapping) ]

\* config_store.delete(session_token)
ConfigStoreDelete(configs, token) == { c \in configs : c.token # token }

\* get_marking_config, then require_configuration: the status code of the
\* exception raised, 200 when the configuration is handed to the route.
require_configuration(configs, session_token) ==
    IF ConfigStoreGet(configs, session_token) = <<>> THEN 400
    ELSE IF ~is_configured_config(ConfigStoreGet(configs, session_token)[1]) THEN 400
    ELSE 200

\* An uploaded file: the suffix of its name and its content, which is the
\* lines of an answer key or the document of a concept mapping.
UploadFile(suffix, content) == [suffix |-> suffix, content |-> content]

TxtSuffix == <<".", "t", "x", "t">>

CsvSuffix == <<".", "c", "s", "v">>

JsonSuffix == <<".", "j", "s", "o", "n">>

ALLOWED_TEXT_EXTENSIONS == {TxtSuffix, CsvSuffix}

\* _validate_extension raises for the upload.
ExtensionRejected(upload, allowed) == Lower(upload.suffix) \notin allowed

\* The list parsed from an answer-key part of the form; [] without a file.
KeyList(upload) == IF upload = <<>> THEN <<>> ELSE parse_answer_key(upload[1].content)

\* The checks of one answer-key part: the detail of the exception raised,
\* "" when the part passes.
KeyDetail(upload) ==
    IF upload = <<>> THEN ""
    ELSE IF ExtensionRejected(upload[1], ALLOWED_TEXT_EXTENSIONS) THEN "unsupported file type"
    ELSE IF KeyList(upload) = <<>> THEN "key without entries"
    ELSE ""

\* The checks of the concept-mapping part.
ConceptDetail(upload) ==
    IF upload = <<>> THEN ""
    ELSE IF ExtensionRejected(upload[1], {JsonSuffix}) THEN "unsupported file type"
    ELSE IF ~upload[1].content.decodes THEN "invalid json"
    ELSE IF validate_concept_mapping(upload[1].content.json) # <<>> THEN "invalid mapping"
    ELSE ""

\* The checks without the test that some key was uploaded.
ConfigureDetailAnyKeys(form) ==
    IF KeyDetail(form.reading_answers) # "" THEN KeyDetail(form.reading_answers)
    ELSE IF KeyDetail(form.qr_answers) # "" THEN KeyDetail(form.qr_answers)
    ELSE IF KeyDetail(form.ar_answers) # "" THEN KeyDetail(form.ar_answers)
    ELSE ConceptDetail(form.concept_mapping)

\* The checks of configure_marking in the order the handler makes them:
\* the detail of the first exception raised, "" when the form is accepted.
ConfigureDetail(form) ==
    IF KeyDetail(form.reading_answers) # "" THEN KeyDetail(form.reading_answers)
    ELSE IF KeyDetail(form.qr_answers) # "" THEN KeyDetail(form.qr_answers)
    ELSE IF KeyDetail(form.ar_answers) # "" THEN KeyDetail(form.ar_answers)
    ELSE IF /\ KeyList(form.reading_answers) = <<>>
            /\ KeyList(form.qr_answers) = <<>>
            /\ KeyList(form.ar_answers) = <<>>
    THEN "no answer key"
    ELSE ConceptDetail(form.concept_mapping)

\* The MarkingConfiguration built from an accepted form.
FormConfiguration(form) ==
    [ reading_answers |-> KeyList(form.reading_answers),
      qr_answers      |-> KeyList(form.qr_answers),
      ar_answers      |-> KeyList(form.ar_answers),
      concept_mapping |-> IF form.concept_mapping = <<>> THEN JsonDict(<<>>)
                          ELSE form.concept_mapping[1].content.json ]

\* What a request leaves: the route, the session, the status code, the
\* detail of the exception raised, and the summary when one is returned.
StoreResponse(route, token, status_code, detail, summary) ==
    [ route       |-> route,
      token       |-> token,
      status_code |-> status_code,
      detail      |-> detail,
      summary     |-> summary ]

-----------------------------------------------------------------------------
(* Configuration-store specification: the logged-in sessions configure,    *)
(* look at the dashboard and open the marking and batch routes, one        *)
(* request at a time; delete is called for a session now and then.         *)

\* The logged-in sessions.
StoreTokens == { Token(1), Token(2) }

\* Answer-key files: a name with an unsupported suffix, a blank file, a
\* one-line file whose suffix is in upper case, a two-line file.
PdfKey == <<UploadFile(<<".", "p", "d", "f">>, << <<"A">> >>)>>

BlankKey == <<UploadFile(TxtSuffix, << <<" ">> >>)>>

OneLineKey == <<UploadFile(<<".", "T", "X", "T">>, << <<"A">> >>)>>

TwoLineKey == <<UploadFile(CsvSuffix, << <<"A">>, <<"B">> >>)>>

\* A concept mapping with an "_" entry and one subject.
NotedMapping ==
    JsonDict(<<[key |-> InstructionsKey, value |-> JsonStr(<<"x">>)],
               [key |-> ReadingSubject,
                value |-> JsonDict(<<[key |-> VocabularyArea,
                                      value |-> JsonList(<<JsonStr(<<"1">>)>>)]>>)]>>)

\* The concept-mapping part of the form: none, a wrong suffix, a file that
\* is not JSON, a document that is no mapping, a mapping.
FormConceptUploads ==
    { <<>>,
      <<UploadFile(TxtSuffix, [decodes |-> TRUE, json |-> NotedMapping])>>,
      <<UploadFile(JsonSuffix, [decodes |-> FALSE, json |-> JsonDict(<<>>)])>>,
      <<UploadFile(JsonSuffix, [decodes |-> TRUE, json |-> JsonList(<<>>)])>>,
      <<UploadFile(JsonSuffix, [decodes |-> TRUE, json |-> NotedMapping])>> }

ConfigureForms ==
    [ reading_answers : {<<>>, PdfKey, BlankKey, OneLineKey, TwoLineKey},
      qr_answers      : {<<>>, BlankKey, TwoLineKey},
      ar_answers      : {<<>>, PdfKey, OneLineKey},
      concept_mapping : FormConceptUploads ]

\* The routes that depend on require_configuration.
ConfiguredRoutes ==
    {"single_marking_page", "process_single_student", "batch_page", "process_batch"}

InitStore ==
    /\ st_configs = {}
    /\ st_configured = {}
    /\ st_response = <<>>
    /\ IdleLookup
    /\ IdleScore
    /\ IdleBatch
    /\ IdleAnalysis
    /\ IdleStatus
    /\ IdleConfig
    /\ IdleStudent
    /\ IdleAuth
    /\ IdleRoutes
    /\ IdleNormalize
    /\ IdleReport
    /\ IdleThreads

\* A handler that stores the configuration before it checks the form.
StoreConfigureUnchecked(token, form) ==
    /\ st_response = <<>>
    /\ st_configs' = ConfigStoreSet(st_configs, token, FormConfiguration(form))
    /\ st_configured' = st_configured \cup {token}
    /\ st_response' =
          IF ConfigureDetail(form) # ""
          THEN <<StoreResponse("configure_marking", token, 400, ConfigureDetail(form), <<>>)>>
          ELSE <<StoreResponse("configure_marking", token, 200, "",
                               <<get_configuration_status(st_configs', token)>>)>>
    /\ UNCHANGED <<lookupVars, scoreVars, batchVars, analysisVars, statusVars, configVars, studentVars, authVars, routeVars, normalizeVars, reportVars, threadVars>>

\* POST /configure of a session.
StoreConfigure(token, form) ==
    /\ st_response = <<>>
    /\ IF ConfigureDetail(form) # ""
       THEN /\ st_response' =
                 <<StoreResponse("configure_marking", token, 400, ConfigureDetail(form), <<>>)>>
            /\ UNCHANGED <<st_configs, st_configured>>
       ELSE /\ st_configs' = ConfigStoreSet(st_configs, token, FormConfiguration(form))
            /\ st_configured' = st_configured \cup {token}
            /\ st_response' =
                 <<StoreResponse("configure_marking", token, 200, "",
                                 <<get_configuration_status(st_configs', token)>>)>>
    /\ UNCHANGED <<lookupVars, scoreVars, batchVars, analysisVars, statusVars, configVars, studentVars, authVars, routeVars, normalizeVars, reportVars, threadVars>>

\* GET / of a session: the dashboard shows the configuration status.
DashboardHome(token) ==
    /\ st_response = <<>>
    /\ st_response' =
          <<StoreResponse("dashboard_home", token, 200, "",
                          <<get_configuration_status(st_configs, token)>>)>>
    /\ UNCHANGED <<st_configs, st_configured>>
    /\ UNCHANGED <<lookupVars, scoreVars, batchVars, analysisVars, statusVars, configVars, studentVars, authVars, routeVars, normalizeVars, reportVars, threadVars>>

\* A request of a session to a marking or batch route, up to the point
\* where require_configuration raises or hands over the configuration.
RequireConfiguration(token, route) ==
    /\ st_response = <<>>
    /\ st_response' =
          <<StoreResponse(route, token, require_configuration(st_configs, token),
                          IF require_configuration(st_configs, token) = 200 THEN ""
                          ELSE "not configured", <<>>)>>
    /\ UNCHANGED <<st_configs, st_configured>>
    /\ UNCHANGED <<lookupVars, scoreVars, batchVars, analysisVars, statusVars, configVars, studentVars, authVars, routeVars, normalizeVars, reportVars, threadVars>>

\* config_store.delete(session_token)
StoreDelete(token) ==
    /\ st_response = <<>>
    /\ st_configs' = ConfigStoreDelete(st_configs, token)
    /\ st_configured' = st_configured \ {token}
    /\ UNCHANGED st_response
    /\ UNCHANGED <<lookupVars, scoreVars, batchVars, analysisVars, statusVars, configVars, studentVars, authVars, routeVars, normalizeVars, reportVars, threadVars>>

\* The response has been sent.
StoreDone ==
    /\ st_response # <<>>
    /\ st_response' = <<>>
    /\ UNCHANGED <<st_configs, st_configured>>
    /\ UNCHANGED <<lookupVars, scoreVars, batchVars, analysisVars, statusVars, configVars, studentVars, authVars, routeVars, normalizeVars, reportVars, threadVars>>

NextStore ==
    \/ \E token \in StoreTokens : \E form \in ConfigureForms : StoreConfigure(token, form)
    \/ \E token \in StoreTokens : DashboardHome(token)
    \/ \E token \in StoreTokens : \E route \in ConfiguredRoutes :
          RequireConfiguration(token, route)
    \/ \E token \in StoreTokens : StoreDelete(token)
    \/ StoreDone

SpecStore == InitStore /\ [][NextStore]_vars

\* C21: a /configure answered with success returns a status with
\* configured true and the reading, QR and AR counts of the keys just
\* stored, and from then on the session's status stays configured and its
\* marking and batch routes pass require_configuration, until the
\* configuration is removed.
C21_ConfiguredAfterSuccess ==
    /\ ( /\ st_response # <<>>
         /\ st_response[1].route = "configure_marking"
         /\ st_response[1].status_code = 200 ) =>
          LET config  == ConfigStoreGet(st_configs, st_response[1].token)[1]
              summary == st_response[1].summary[1]
          IN  /\ summary.configured
              /\ summary.reading_questions = Len(config.reading_answers)
              /\ summary.qr_questions = Len(config.qr_answers)
              /\ summary.ar_questions = Len(config.ar_answers)
    /\ \A token \in st_configured :
          /\ get_configuration_status(st_configs, token).configured
          /\ require_configuration(st_configs, token) = 200
    /\ ( /\ st_response # <<>>
         /\ st_response[1].route \in ConfiguredRoutes
         /\ st_response[1].token \in st_configured ) => st_response[1].status_code = 200

\* The batch page opens for a session configured with two QR answers and
\* one AR answer, while the other session has no configuration.
C21_Witness ==
    /\ st_response # <<>>
    /\ st_response[1].route = "batch_page"
    /\ st_response[1].status_code = 200
    /\ st_response[1].token = Token(1)
    /\ st_configured = {Token(1)}
    /\ get_configuration_status(st_configs, Token(1)).reading_questions = 0
    /\ get_configuration_status(st_configs, Token(1)).qr_questions = 2
    /\ get_configuration_status(st_configs, Token(1)).ar_questions = 1

\* C29: a /configure answered 400 (unsupported extension, a key without
\* entries, no key, invalid JSON, invalid mapping) leaves the whole store
\* as it was: the session's configuration and every other session's.
C29_FailedConfigureKeepsStore ==
    [][ ( /\ st_response = <<>>
          /\ st_response' # <<>>
          /\ st_response'[1].route = "configure_marking"
          /\ st_response'[1].status_code = 400 ) => st_configs' = st_configs ]_vars

\* An upload that is not JSON is answered 400 while both sessions hold a
\* configuration.
C29_Witness ==
    /\ st_response # <<>>
    /\ st_response[1].route = "configure_marking"
    /\ st_response[1].status_code = 400
    /\ st_response[1].detail = "invalid json"
    /\ st_configured = StoreTokens
    /\ ConfigStoreGet(st_configs, Token(1)) # ConfigStoreGet(st_configs, Token(2))

-----------------------------------------------------------------------------
(* Keys starting with "_": claim C25 *)

\* The top-level keys of a document whose first character is "_".
MetadataKeys(concepts) ==
    IF concepts.kind # "dict" THEN {}
    ELSE { concepts.value[i].key : i \in { j \in 1..Len(concepts.value) :
                                             /\ concepts.value[j].key # <<>>
                                             /\ concepts.value[j].key[1] = "_" } }

\* The document without the entries of those keys.
WithoutMetadata(concepts) ==
    IF concepts.kind # "dict" THEN concepts
    ELSE JsonDict(SelectSeq(concepts.value,
                            LAMBDA entry : entry.key \notin MetadataKeys(concepts)))

\* The area names of a list of LearningAreaResult.
AreaNamesOf(area_results) == { area_results[a].area : a \in 1..Len(area_results) }

\* C25: the top-level keys starting with "_" are filtered before use:
\* validation returns for a document what it returns for the document
\* without them, the mapped subjects of the session's configuration list
\* none of them, and no FullAnalysis compiled for the session has one of
\* them as a subject or as an area.
C25_MetadataKeysFiltered ==
    /\ \A document \in StudentDocuments :
          validate_concept_mapping(document)
             = validate_concept_mapping(WithoutMetadata(document))
    /\ \A i \in 1..Len(SubjectsMapped(sg_config[1].concept_mapping)) :
          SubjectsMapped(sg_config[1].concept_mapping)[i]
             \notin MetadataKeys(sg_config[1].concept_mapping)
    /\ (Compiled /\ ~Full.raised) =>
          \A s \in 1..Len(Full.subject_areas) :
             /\ Full.subject_areas[s].key \notin MetadataKeys(sg_config[1].concept_mapping)
             /\ Full.summary[s].key \notin MetadataKeys(sg_config[1].concept_mapping)
             /\ AreaNamesOf(Full.subject_areas[s].value)
                   \cap MetadataKeys(sg_config[1].concept_mapping) = {}
             /\ SampleArea \notin AreaNamesOf(Full.subject_areas[s].value)

\* An analysis compiled on the mapping whose "_instructions" entry holds an
\* area: Reading has its one area, and the session maps Reading only.
C25_Witness ==
    /\ Compiled
    /\ ~Full.raised
    /\ sg_config[1].concept_mapping = SampleDocument
    /\ SubjectsMapped(sg_config[1].concept_mapping) = <<ReadingSubject>>
    /\ AreaNamesOf(Full.subject_areas[1].value) = {VocabularyArea}

-----------------------------------------------------------------------------
(* DocxReportGenerator._build_concept_mastery_list:                        *)
(* src/web/services/docx_report.py.  The check mark of a tick is the        *)
(* string "tick", a blank tick the empty string.                            *)

MASTERY_THRESHOLD == 51

Tick == "tick"

\* ConceptMastery(name, done_well, improve, questions)
ConceptMastery(name, done_well, improve, questions) ==
    [name |-> name, done_well |-> done_well, improve |-> improve, questions |-> questions]

\* question_map.get(concept_name, '')
QuestionMapGet(question_map, concept_name) ==
    IF concept_name \in DictKeys(question_map) THEN DictGet(question_map, concept_name)
    ELSE <<>>

\* A comparison that leaves the threshold itself out.
MasteryExceeded(percentage) == percentage.num > MASTERY_THRESHOLD * percentage.den

\* result.percentage >= MASTERY_THRESHOLD
MasteryReached(percentage) == percentage.num >= MASTERY_THRESHOLD * percentage.den

\* The body of the loop over area_results.
ResultMastery(result, question_map) ==
    ConceptMastery(result.area,
                   IF MasteryReached(result.percentage) THEN Tick ELSE "",
                   IF MasteryReached(result.percentage) THEN "" ELSE Tick,
                   IF result.question_numbers # <<>> THEN result.question_numbers
                   ELSE QuestionMapGet(question_map, result.area))

\* _build_concept_mastery_list(concept_names, subject_name, area_results,
\* flow_type), question_map being CONCEPT_QUESTION_MAPPING.get(subject_name, {})
\* and area_results <<>> for None or [].
build_concept_mastery_list(concept_names, question_map, area_results, flow_type) ==
    IF flow_type = "mock"
    THEN [i \in 1..Len(concept_names) |->
            ConceptMastery(concept_names[i], "", "",
                           QuestionMapGet(question_map, concept_names[i]))]
    ELSE IF area_results # <<>>
    THEN [i \in 1..Len(area_results) |-> ResultMastery(area_results[i], question_map)]
    ELSE [i \in 1..Len(concept_names) |->
            ConceptMastery(concept_names[i], "", Tick,
                           QuestionMapGet(question_map, concept_names[i]))]

-----------------------------------------------------------------------------
(* Report specification: _build_concept_mastery_list is called with the    *)
(* names of a subject's concepts and a list of LearningAreaResult.          *)

\* Largest number of results in area_results.
MaxReportAreas == 2

\* The first default concepts of Reading.
ReportConcepts ==
    <<"Understanding main ideas", "Inference and deduction", "Identifying key details">>

\* The lists passed as concept_names.
ReportConceptNames == { SubSeq(ReportConcepts, 1, n) : n \in {1, Len(ReportConcepts)} }

\* The tallies of an area: correct of total.
ReportTallies == { <<0, 0>>, <<1, 2>>, <<50, 100>>, <<51, 100>> }

\* The LearningAreaResult the aggregator builds for an area and a tally,
\* with and without question numbers; the last concept has no result.
ReportAreaResults ==
    { AreaRecord(ReportConcepts[c], tally[1], tally[2],
                 IF tally[2] = 2 THEN <<"1", ",", " ", "2">> ELSE <<>>) :
        c \in 1..(Len(ReportConcepts) - 1), tally \in ReportTallies }

\* CONCEPT_QUESTION_MAPPING of the subject, as loaded from the mapping file
\* or empty without it.
ReportQuestionMaps ==
    { <<>>, <<[key |-> ReportConcepts[1], value |-> <<"3">>]>> }

FlowTypes == {"mock", "standard", "batch"}

ReportCalls ==
    [ concept_names : ReportConceptNames,
      question_map  : ReportQuestionMaps,
      area_results  : SeqsUpTo(ReportAreaResults, MaxReportAreas),
      flow_type     : FlowTypes ]

InitReport ==
    /\ rp_call = <<>>
    /\ rp_concepts = <<>>
    /\ IdleLookup
    /\ IdleScore
    /\ IdleBatch
    /\ IdleAnalysis
    /\ IdleStatus
    /\ IdleConfig
    /\ IdleStudent
    /\ IdleAuth
    /\ IdleRoutes
    /\ IdleNormalize
    /\ IdleStore
    /\ IdleThreads

\* One call of _build_concept_mastery_list.
BuildConceptMasteryList(call) ==
    /\ rp_call = <<>>
    /\ rp_call' = <<call>>
    /\ rp_concepts' = <<build_concept_mastery_list(call.concept_names, call.question_map,
                                                   call.area_results, call.flow_type)>>
    /\ UNCHANGED <<lookupVars, scoreVars, batchVars, analysisVars, statusVars, configVars, studentVars, authVars, routeVars, normalizeVars, storeVars, threadVars>>

\* The list has been put into the context of the template.
ReturnConcepts ==
    /\ rp_call # <<>>
    /\ rp_call' = <<>>
    /\ rp_concepts' = <<>>
    /\ UNCHANGED <<lookupVars, scoreVars, batchVars, analysisVars, statusVars, configVars, studentVars, authVars, routeVars, normalizeVars, storeVars, threadVars>>

NextReport ==
    \/ \E call \in ReportCalls : BuildConceptMasteryList(call)
    \/ ReturnConcepts

SpecReport == InitReport /\ [][NextReport]_vars

-----------------------------------------------------------------------------
(* The concept list of the report: claims C22 and C26 *)

Built == rp_call # <<>>

Call == rp_call[1]

Concepts == rp_concepts[1]

\* Some area result is about the concept.
HasAreaResult(concept_name) ==
    \E r \in 1..Len(Call.area_results) : Call.area_results[r].area = concept_name

\* C22: the list returned holds exactly one entry per name of
\* concept_names, in the order of concept_names, whatever the order or
\* completeness of area_results; in the standard flow a concept without a
\* matching area result has the improve tick and no done_well tick.
C22_OneEntryPerConceptName ==
    Built =>
        /\ Len(Concepts) = Len(Call.concept_names)
        /\ \A i \in 1..Len(Concepts) :
              /\ Concepts[i].name = Call.concept_names[i]
              /\ (Call.flow_type = "standard" /\ ~HasAreaResult(Call.concept_names[i])) =>
                    (Concepts[i].improve = Tick /\ Concepts[i].done_well = "")

\* C26: in the standard and batch flows the list holds, for every
\* LearningAreaResult, an entry with exactly one tick: done_well when
\* percentage >= 51.0, which is when the aggregator's status is "Done
\* well", and improve otherwise; the batch flow returns what the standard
\* flow returns; in the mock flow both ticks of every concept are blank.
C26_TicksFollowThreshold ==
    Built =>
        /\ (Call.flow_type \in {"standard", "batch"} /\ Call.area_results # <<>>) =>
              /\ Len(Concepts) = Len(Call.area_results)
              /\ \A r \in 1..Len(Call.area_results) :
                    LET result == Call.area_results[r]
                    IN  /\ Concepts[r].name = result.area
                        /\ {Concepts[r].done_well, Concepts[r].improve} = {Tick, ""}
                        /\ Concepts[r].done_well = Tick
                              <=> result.percentage.num >= 51 * result.percentage.den
                        /\ Concepts[r].done_well = Tick <=> result.status = "Done well"
        /\ Call.flow_type = "batch" =>
              Concepts = build_concept_mastery_list(Call.concept_names, Call.question_map,
                                                    Call.area_results, "standard")
        /\ Call.flow_type = "mock" =>
              /\ Len(Concepts) = Len(Call.concept_names)
              /\ \A i \in 1..Len(Concepts) :
                    Concepts[i].done_well = "" /\ Concepts[i].improve = ""

\* The batch flow on an area at 51 of 100 and an area at 50 of 100: the
\* first has the done_well tick, the second the improve tick.
C26_Witness ==
    /\ Built
    /\ Call.flow_type = "batch"
    /\ Len(Call.area_results) = 2
    /\ Call.area_results[1].correct = 51
    /\ Call.area_results[2].correct = 50
    /\ Concepts[1].done_well = Tick
    /\ Concepts[1].improve = ""
    /\ Concepts[2].done_well = ""
    /\ Concepts[2].improve = Tick

-----------------------------------------------------------------------------
(* Store-threads specification: threads call get, set, delete and          *)
(* cleanup_expired of the one SessionConfigStore; each statement under    *)
(* "with self._lock" is a step of its own, and so are taking and giving   *)
(* back the lock.  Times are hours.                                        *)

StoreThreads == {"worker 1", "worker 2"}

\* The tokens the calls are made for.
ThreadTokens == { Token(1), Token(2) }

\* The configurations passed to set: two key sets, uploaded at hour 0 or 1.
ThreadConfigs == [keys : {"first keys", "second keys"}, uploaded_at : {0, 1}]

\* datetime.now() - timedelta(hours=max_age_hours), for the times and
\* ages cleanup_expired is called with.
Cutoffs == {0, 1, 2}

\* A thread outside any call.
IdleThread ==
    [ op |-> "idle", pc |-> "idle", token |-> EmptyToken, config |-> <<>>,
      cutoff |-> 0, expired |-> {}, result |-> <<>> ]

\* A thread that has entered a call and is at its "with self._lock".
Calling(op, token, config, cutoff) ==
    [ op |-> op, pc |-> "acquire", token |-> token, config |-> config,
      cutoff |-> cutoff, expired |-> {}, result |-> <<>> ]

\* An acquire that does not wait for the lock.
LockIgnored(lock) == TRUE

\* threading.Lock: acquire returns once no thread holds the lock.
LockFree(lock) == lock = <<>>

\* [key for key, value in self._configs.items() if value.uploaded_at < cutoff]
ExpiredKeys(configs, cutoff) ==
    { c.token : c \in { d \in configs : d.config.uploaded_at < cutoff } }

\* The history after a step: which configuration a token was last given.
LatestExcept(token, value) == [cs_latest EXCEPT ![token] = value]

InitThreads ==
    /\ cs_configs = {}
    /\ cs_lock = <<>>
    /\ cs_threads = [th \in StoreThreads |-> IdleThread]
    /\ cs_latest = [token \in ThreadTokens |-> <<>>]
    /\ IdleLookup
    /\ IdleScore
    /\ IdleBatch
    /\ IdleAnalysis
    /\ IdleStatus
    /\ IdleConfig
    /\ IdleStudent
    /\ IdleAuth
    /\ IdleRoutes
    /\ IdleNormalize
    /\ IdleStore
    /\ IdleReport

\* A thread calls get(session_token).
CallGet(th, token) ==
    /\ cs_threads[th].pc = "idle"
    /\ cs_threads' = [cs_threads EXCEPT ![th] = Calling("get", token, <<>>, 0)]
    /\ UNCHANGED <<cs_configs, cs_lock, cs_latest>>
    /\ UNCHANGED <<lookupVars, scoreVars, batchVars, analysisVars, statusVars, configVars, studentVars, authVars, routeVars, normalizeVars, storeVars, reportVars>>

\* A thread calls set(session_token, config).
CallSet(th, token, config) ==
    /\ cs_threads[th].pc = "idle"
    /\ cs_threads' = [cs_threads EXCEPT ![th] = Calling("set", token, <<config>>, 0)]
    /\ UNCHANGED <<cs_configs, cs_lock, cs_latest>>
    /\ UNCHANGED <<lookupVars, scoreVars, batchVars, analysisVars, statusVars, configVars, studentVars, authVars, routeVars, normalizeVars, storeVars, reportVars>>

\* A thread calls delete(session_token).
CallDelete(th, token) ==
    /\ cs_threads[th].pc = "idle"
    /\ cs_threads' = [cs_threads EXCEPT ![th] = Calling("delete", token, <<>>, 0)]
    /\ UNCHANGED <<cs_configs, cs_lock, cs_latest>>
    /\ UNCHANGED <<lookupVars, scoreVars, batchVars, analysisVars, statusVars, configVars, studentVars, authVars, routeVars, normalizeVars, storeVars, reportVars>>

\* A thread calls cleanup_expired(max_age_hours): the cutoff is computed
\* before the lock is taken.
CallCleanupExpired(th, cutoff) ==
    /\ cs_threads[th].pc = "idle"
    /\ cs_threads' = [cs_threads EXCEPT ![th] = Calling("cleanup_expired", EmptyToken, <<>>, cutoff)]
    /\ UNCHANGED <<cs_configs, cs_lock, cs_latest>>
    /\ UNCHANGED <<lookupVars, scoreVars, batchVars, analysisVars, statusVars, configVars, studentVars, authVars, routeVars, normalizeVars, storeVars, reportVars>>

\* with self._lock: the thread takes the lock.
Acquire(th) ==
    /\ cs_threads[th].pc = "acquire"
    /\ LockFree(cs_lock)
    /\ cs_lock' = <<th>>
    /\ cs_threads' = [cs_threads EXCEPT ![th].pc = "body"]
    /\ UNCHANGED <<cs_configs, cs_latest>>
    /\ UNCHANGED <<lookupVars, scoreVars, batchVars, analysisVars, statusVars, configVars, studentVars, authVars, routeVars, normalizeVars, storeVars, reportVars>>

\* get: return self._configs.get(session_token)
GetBody(th) ==
    /\ cs_threads[th].pc = "body"
    /\ cs_threads[th].op = "get"
    /\ cs_threads' = [cs_threads EXCEPT
                         ![th].result = ConfigStoreGet(cs_configs, cs_threads[th].token),
                         ![th].pc = "release"]
    /\ UNCHANGED <<cs_configs, cs_lock, cs_latest>>
    /\ UNCHANGED <<lookupVars, scoreVars, batchVars, analysisVars, statusVars, configVars, studentVars, authVars, routeVars, normalizeVars, storeVars, reportVars>>

\* set: self._configs[session_token] = config
SetBody(th) ==
    /\ cs_threads[th].pc = "body"
    /\ cs_threads[th].op = "set"
    /\ cs_configs' = ConfigStoreSet(cs_configs, cs_threads[th].token, cs_threads[th].config[1])
    /\ cs_latest' = LatestExcept(cs_threads[th].token, cs_threads[th].config)
    /\ cs_threads' = [cs_threads EXCEPT ![th].pc = "release"]
    /\ UNCHANGED cs_lock
    /\ UNCHANGED <<lookupVars, scoreVars, batchVars, analysisVars, statusVars, configVars, studentVars, authVars, routeVars, normalizeVars, storeVars, reportVars>>

\* delete: self._configs.pop(session_token, None)
DeleteBody(th) ==
    /\ cs_threads[th].pc = "body"
    /\ cs_threads[th].op = "delete"
    /\ cs_configs' = ConfigStoreDelete(cs_configs, cs_threads[th].token)
    /\ cs_latest' = LatestExcept(cs_threads[th].token, <<>>)
    /\ cs_threads' = [cs_threads EXCEPT ![th].pc = "release"]
    /\ UNCHANGED cs_lock
    /\ UNCHANGED <<lookupVars, scoreVars, batchVars, analysisVars, statusVars, configVars, studentVars, authVars, routeVars, normalizeVars, storeVars, reportVars>>

\* cleanup_expired: the list of expired keys is built.
CleanupCollect(th) ==
    /\ cs_threads[th].pc = "body"
    /\ cs_threads[th].op = "cleanup_expired"
    /\ cs_threads' = [cs_threads EXCEPT
                         ![th].expired = ExpiredKeys(cs_configs, cs_threads[th].cutoff),
                         ![th].pc = IF ExpiredKeys(cs_configs, cs_threads[th].cutoff) = {}
                                    THEN "release" ELSE "delete"]
    /\ UNCHANGED <<cs_configs, cs_lock, cs_latest>>
    /\ UNCHANGED <<lookupVars, scoreVars, batchVars, analysisVars, statusVars, configVars, studentVars, authVars, routeVars, normalizeVars, storeVars, reportVars>>

\* cleanup_expired: del self._configs[key] for the next key of the list;
\* a key that is no longer in the dict raises KeyError, which leaves the
\* with statement.  The history drops the token's configuration when it
\* is older than the cutoff.
CleanupDelete(th, key) ==
    /\ cs_threads[th].pc = "delete"
    /\ key \in cs_threads[th].expired
    /\ IF ConfigStoreGet(cs_configs, key) = <<>>
       THEN /\ cs_threads' = [cs_threads EXCEPT ![th].pc = "raised"]
            /\ cs_lock' = <<>>
            /\ UNCHANGED <<cs_configs, cs_latest>>
       ELSE /\ cs_configs' = ConfigStoreDelete(cs_configs, key)
            /\ cs_latest' =
                  IF cs_latest[key] = <<>> THEN cs_latest
                  ELSE IF cs_latest[key][1].uploaded_at < cs_threads[th].cutoff
                  THEN LatestExcept(key, <<>>)
                  ELSE cs_latest
            /\ cs_threads' = [cs_threads EXCEPT
                                 ![th].expired = cs_threads[th].expired \ {key},
                                 ![th].pc = IF cs_threads[th].expired = {key}
                                            THEN "release" ELSE "delete"]
            /\ UNCHANGED cs_lock
    /\ UNCHANGED <<lookupVars, scoreVars, batchVars, analysisVars, statusVars, configVars, studentVars, authVars, routeVars, normalizeVars, storeVars, reportVars>>

\* The end of the with statement: the lock is given back and the call returns.
Release(th) ==
    /\ cs_threads[th].pc = "release"
    /\ cs_lock' = <<>>
    /\ cs_threads' = [cs_threads EXCEPT ![th] = IdleThread]
    /\ UNCHANGED <<cs_configs, cs_latest>>
    /\ UNCHANGED <<lookupVars, scoreVars, batchVars, analysisVars, statusVars, configVars, studentVars, authVars, routeVars, normalizeVars, storeVars, reportVars>>

NextThreads ==
    \/ \E th \in StoreThreads : \E token \in ThreadTokens : CallGet(th, token)
    \/ \E th \in StoreThreads : \E token \in ThreadTokens : \E config \in ThreadConfigs :
          CallSet(th, token, config)
    \/ \E th \in StoreThreads : \E token \in ThreadTokens : CallDelete(th, token)
    \/ \E th \in StoreThreads : \E cutoff \in Cutoffs : CallCleanupExpired(th, cutoff)
    \/ \E th \in StoreThreads : Acquire(th)
    \/ \E th \in StoreThreads : GetBody(th)
    \/ \E th \in StoreThreads : SetBody(th)
    \/ \E th \in StoreThreads : DeleteBody(th)
    \/ \E th \in StoreThreads : CleanupCollect(th)
    \/ \E th \in StoreThreads : \E key \in ThreadTokens : CleanupDelete(th, key)
    \/ \E th \in StoreThreads : Release(th)

SpecThreads == InitThreads /\ [][NextThreads]_vars

\* The thread is between taking the lock and giving it back.
InsideLock(threads, th) == threads[th].pc \in {"body", "delete", "release"}

\* C30: under any interleaving of get, set, delete and cleanup_expired
\* calls each call takes effect atomically: at most one thread is inside
\* the lock, no del raises, and the dict holds for every token the
\* configuration most recently set for it and not since deleted or
\* expired; get returns nothing or that configuration; set and delete on
\* one token leave the entry of every other token as it was.
C30_StoreCallsAtomic ==
    [][ /\ Cardinality({ th \in StoreThreads : InsideLock(cs_threads', th) }) <= 1
        /\ \A th \in StoreThreads : cs_threads'[th].pc # "raised"
        /\ \A token \in ThreadTokens :
              ConfigStoreGet(cs_configs', token) = cs_latest'[token]
        /\ \A th \in StoreThreads :
              /\ (cs_threads[th].op = "get" /\ cs_threads[th].pc = "body"
                     /\ cs_threads'[th].pc = "release") =>
                    cs_threads'[th].result \in {<<>>, cs_latest[cs_threads[th].token]}
              /\ (cs_threads[th].op \in {"set", "delete"} /\ cs_threads[th].pc = "body"
                     /\ cs_threads'[th].pc = "release") =>
                    \A other \in ThreadTokens \ {cs_threads[th].token} :
                       ConfigStoreGet(cs_configs', other) = ConfigStoreGet(cs_configs, other)
      ]_vars

\* While one thread is inside cleanup_expired with a key still to delete,
\* the other thread waits at the lock with a newer configuration for that
\* key.
C30_Witness ==
    /\ cs_threads["worker 1"].op = "cleanup_expired"
    /\ cs_threads["worker 1"].pc = "delete"
    /\ cs_threads["worker 1"].expired = {Token(1)}
    /\ cs_threads["worker 2"].op = "set"
    /\ cs_threads["worker 2"].pc = "acquire"
    /\ cs_threads["worker 2"].token = Token(1)
    /\ cs_threads["worker 2"].config[1].uploaded_at >= cs_threads["worker 1"].cutoff
    /\ ConfigStoreGet(cs_configs, Token(2)) # <<>>

====
